---- MODULE Spec2Model ----
(***************************************************************************)
(* A model of vncfreethumb: the RFB 3.3 server loop (cmd/server/main.go),  *)
(* the window model and its event handlers (cmd/server/ui.go, in the       *)
(* revision with keyboard folds), the message decoders (rfb/rfb.go) and    *)
(* the pixel codec (rfb/image.go). The variables are those of one          *)
(* connection; `other` holds a second connection while the first runs.     *)
(***************************************************************************)
EXTENDS Integers, Sequences, FiniteSets, TLC

VARIABLES
    pc,            \* position of rfbServe: a handshake step, "Loop", "Error" or "Panic"
    err,           \* the error rfbServe returned ("" while it is running)
    io,            \* the handshake messages written and read so far, in order
    pixelFormat,   \* rfbServe's local pixelFormat
    authResponse,  \* rfbServe's local authResponse (16 bytes, summarised by one)
    keyEvent,      \* rfbServe's local keyEvent
    pointerEvent,  \* rfbServe's local pointerEvent
    lastMsg,       \* the last session-loop message that was read (a ghost)
    setFormat,     \* the format of the last SetPixelFormat that was decoded (a ghost)
    out,           \* what the last loop iteration flushed to the connection (a ghost)
    windows,       \* ui.windows, back to front
    pendingCrop,   \* ui.pendingCrop
    keyPressing,   \* ui.keyPressing
    eventHandler,  \* ui.eventHandler: the current mode and what its closure captured
    pin,           \* pixel codec: the colour handed to Set / CopyFromRGBA
    pfmt,          \* pixel codec: the format of the PixelFormatImage
    pix,           \* pixel codec: img.Pix of the 2x1 PixelFormatImage
    pout,          \* pixel codec: the colour read back
    pstage,        \* pixel codec: which operation ran last
    other          \* the connection whose goroutine is not running: its variables

sessionVars == <<pc, err, io, pixelFormat, authResponse, keyEvent, pointerEvent,
                 lastMsg, setFormat, out>>
uiVars == <<windows, pendingCrop, keyPressing, eventHandler>>
pixelVars == <<pin, pfmt, pix, pout, pstage>>
vars == <<sessionVars, uiVars, pixelVars, other>>

----------------------------------------------------------------------------
(* Bounds of the model.                                                    *)

\* Client version numbers range over 0..MaxVersion and the two listed ones.
MaxVersion == 3
\* Window positions a pointer event may produce lie in -MaxPos..MaxPos.
MaxPos == 12

----------------------------------------------------------------------------
(* Program constants.                                                      *)

windowWidth == 1200
windowHeight == 720
AuthenticationSchemeVNC == 2
VNCAuthenticationResultOK == 0
VNCAuthenticationResultFailed == 1

Min(a, b) == IF a <= b THEN a ELSE b
Max(a, b) == IF a >= b THEN a ELSE b

\* Go's int(f) of a float64 with exact value n/d, d > 0: truncation toward zero.
TruncDiv(n, d) == IF n >= 0 THEN n \div d ELSE -((-n) \div d)

\* The local pixelFormat of rfbServe before any SetPixelFormat.
InitialPixelFormat ==
    [BitsPerPixel |-> 32, BitDepth |-> 24, BigEndian |-> TRUE, TrueColor |-> TRUE,
     RedMax |-> 255, GreenMax |-> 255, BlueMax |-> 255,
     RedShift |-> 24, GreenShift |-> 16, BlueShift |-> 8]

----------------------------------------------------------------------------
(* ProtocolVersionMessage: "RFB %03d.%03d\n" as a sequence of characters.  *)

DigitChars == <<"0", "1", "2", "3", "4", "5", "6", "7", "8", "9">>

DigitValue(c) == CHOOSE d \in 0..9 : DigitChars[d + 1] = c

IsDigit(c) == \E d \in 0..9 : DigitChars[d + 1] = c

RECURSIVE Digits(_)
\* The decimal digits of n >= 0, most significant first.
Digits(n) == IF n < 10 THEN <<DigitChars[n + 1]>>
             ELSE Append(Digits(n \div 10), DigitChars[(n % 10) + 1])

\* %03d: at least three digits, padded with zeros on the left.
Pad3(n) == LET d == Digits(n)
           IN  IF Len(d) >= 3 THEN d
               ELSE IF Len(d) = 2 THEN <<"0">> \o d ELSE <<"0", "0">> \o d

FormatVersion(major, minor) ==
    <<"R", "F", "B", " ">> \o Pad3(major) \o <<".">> \o Pad3(minor) \o <<"\n">>

\* ProtocolVersionMessage.Write: refuses a text that is not 12 bytes long.
ProtocolVersionWrite(major, minor) ==
    LET buf == FormatVersion(major, minor)
    IN  IF Len(buf) # 12 THEN [err |-> "length", buf |-> <<>>]
        ELSE [err |-> "", buf |-> buf]

RECURSIVE ScanDigits(_, _, _, _)
\* %03d of Sscanf: up to `width` digits of buf from index i on; the value read
\* and the index after it (no digit read: n = 0).
ScanDigits(buf, i, width, acc) ==
    IF width = 0 \/ i > Len(buf) \/ ~IsDigit(buf[i])
    THEN [val |-> acc.val, next |-> i, n |-> acc.n]
    ELSE ScanDigits(buf, i + 1, width - 1,
                    [val |-> acc.val * 10 + DigitValue(buf[i]), n |-> acc.n + 1])

\* ProtocolVersionMessage.Read on the 12 bytes buf (ReadFull fails on fewer).
ProtocolVersionRead(buf) ==
    IF Len(buf) < 12 THEN [err |-> "EOF", Major |-> 3, Minor |-> 3]
    ELSE IF SubSeq(buf, 1, 4) # <<"R", "F", "B", " ">>
    THEN [err |-> "parse", Major |-> 3, Minor |-> 3]
    ELSE LET a == ScanDigits(buf, 5, 3, [val |-> 0, n |-> 0])
         IN  IF a.n = 0 \/ a.next > Len(buf) \/ buf[a.next] # "."
             THEN [err |-> "parse", Major |-> 3, Minor |-> 3]
             ELSE LET b == ScanDigits(buf, a.next + 1, 3, [val |-> 0, n |-> 0])
                  IN  IF b.n = 0
                      THEN [err |-> "parse", Major |-> a.val, Minor |-> 3]
                      ELSE IF b.next > Len(buf) \/ buf[b.next] # "\n"
                      THEN [err |-> "parse", Major |-> a.val, Minor |-> b.val]
                      ELSE [err |-> "", Major |-> a.val, Minor |-> b.val]

\* What a client may send as its ProtocolVersion: every well-formed version with
\* numbers in VersionNums, two texts that do not parse, and a closed connection.
VersionNums == (0..MaxVersion) \cup {8, 889}

ClientVersionReplies ==
    { FormatVersion(ma, mi) : ma \in VersionNums, mi \in VersionNums }
    \cup { <<"H", "T", "T", "P", "/", "1", ".", "1", " ", "2", "0", "0">>,
           <<"R", "F", "B", " ", "0", "0", "3", ".", "x", "0", "3", "\n">>,
           <<"R", "F", "B">> }

----------------------------------------------------------------------------
(* package image: points and rectangles.                                   *)

Pt(x, y) == [X |-> x, Y |-> y]

\* image.Rectangle{min, max}: the struct as given, not canonicalised.
Rectangle(min, max) == [Min |-> min, Max |-> max]

\* Rectangle.Canon: swaps the coordinates of an axis whose max is below its min.
Canon(r) ==
    Rectangle(Pt(Min(r.Min.X, r.Max.X), Min(r.Min.Y, r.Max.Y)),
              Pt(Max(r.Min.X, r.Max.X), Max(r.Min.Y, r.Max.Y)))

\* image.Rect: the canonical rectangle of two corners.
Rect(x0, y0, x1, y1) == Canon(Rectangle(Pt(x0, y0), Pt(x1, y1)))

ZR == Rectangle(Pt(0, 0), Pt(0, 0))

Dx(r) == r.Max.X - r.Min.X
Dy(r) == r.Max.Y - r.Min.Y

\* Point.In
In(p, r) == r.Min.X <= p.X /\ p.X < r.Max.X /\ r.Min.Y <= p.Y /\ p.Y < r.Max.Y

----------------------------------------------------------------------------
(* Window (ui.go). scale is the float64 n/d; every product and quotient    *)
(* below is exact in float64 for the scales used, and int() truncates.     *)

ScreenRect(win) ==
    LET width  == TruncDiv(Dx(win.crop) * win.scale.n, win.scale.d)
        height == TruncDiv(Dy(win.crop) * win.scale.n, win.scale.d)
    IN  Rect(win.pos.X, win.pos.Y, win.pos.X + width, win.pos.Y + height)

\* The conversion that adds crop.Min before the division by the scale:
\* float64(pt.X-sr.Min.X+win.crop.Min.X) / win.scale.
ScreenToWindowCropScaled(win, pt) ==
    LET sr == ScreenRect(win)
    IN  Pt(TruncDiv((pt.X - sr.Min.X + win.crop.Min.X) * win.scale.d, win.scale.n),
           TruncDiv((pt.Y - sr.Min.Y + win.crop.Min.Y) * win.scale.d, win.scale.n))

ScreenToWindow(win, pt) ==
    LET sr == ScreenRect(win)
    IN  Pt(TruncDiv((pt.X - sr.Min.X) * win.scale.d + win.crop.Min.X * win.scale.n,
                    win.scale.n),
           TruncDiv((pt.Y - sr.Min.Y) * win.scale.d + win.crop.Min.Y * win.scale.n,
                    win.scale.n))

WindowToScreen(win, pt) ==
    Pt(TruncDiv((pt.X - win.crop.Min.X) * win.scale.n + win.pos.X * win.scale.d,
                win.scale.d),
       TruncDiv((pt.Y - win.crop.Min.Y) * win.scale.n + win.pos.Y * win.scale.d,
                win.scale.d))

\* A shift by the change of crop.Min in image pixels, not scaled.
ScaleDeltaUnscaled(win, delta) == delta

\* win.pos.X += int(float64(delta) * win.scale)
ScaleDelta(win, delta) == TruncDiv(delta * win.scale.n, win.scale.d)

\* A directory entry: a file that decodes to an image with these bounds, or not.
ImageFile(id, w, h) == [id |-> id, decodes |-> TRUE, bounds |-> Rect(0, 0, w, h)]
BadFile(id) == [id |-> id, decodes |-> FALSE, bounds |-> ZR]

\* The Window NewUI makes of a decoded image.
NewWindow(file) ==
    [id |-> file.id, img |-> file.bounds, crop |-> file.bounds, lastCrop |-> file.bounds,
     scale |-> [n |-> 1, d |-> 2], pos |-> Pt(0, 0), moving |-> FALSE]

RECURSIVE LoadWindows(_)
\* The loop of NewUI over the directory listing: a file that does not open or
\* decode is logged and skipped.
LoadWindows(files) ==
    IF files = <<>> THEN <<>>
    ELSE IF ~Head(files).decodes THEN LoadWindows(Tail(files))
    ELSE <<NewWindow(Head(files))>> \o LoadWindows(Tail(files))

\* A NewUI that gives up at the first file it cannot open or decode:
\* "return nil, err" in the place of "log.Print(err); continue".
NewUIStrict(dir) ==
    IF ~dir.readable THEN [err |-> "list files", windows |-> <<>>]
    ELSE IF \E i \in 1..Len(dir.files) : ~dir.files[i].decodes
    THEN [err |-> "decode", windows |-> <<>>]
    ELSE [err |-> "", windows |-> LoadWindows(dir.files)]

\* NewUI: dir.readable = FALSE is a directory ioutil.ReadDir cannot list.
NewUI(dir) ==
    IF ~dir.readable THEN [err |-> "list files", windows |-> <<>>]
    ELSE [err |-> "", windows |-> LoadWindows(dir.files)]

DefaultHandler == [mode |-> "default", win |-> 0, x |-> 0, y |-> 0]

----------------------------------------------------------------------------
(* UI.moveToFront                                                          *)

RECURSIVE ShiftLeft(_, _)
\* for i := windowIdx; i <= len-2; i++ { windows[i] = windows[i+1] }  (1-based here)
ShiftLeft(ws, i) ==
    IF i > Len(ws) - 1 THEN ws
    ELSE ShiftLeft([ws EXCEPT ![i] = ws[i + 1]], i + 1)

\* An exchange of the window with the last one.
moveToFrontSwapped(ws, windowIdx) ==
    [ws EXCEPT ![windowIdx] = ws[Len(ws)], ![Len(ws)] = ws[windowIdx]]

moveToFront(ws, windowIdx) ==
    LET win == ws[windowIdx]
        shifted == ShiftLeft(ws, windowIdx)
    IN  [shifted EXCEPT ![Len(ws)] = win]

----------------------------------------------------------------------------
(* UI event handlers. A ui value is the record of the UI's mutable fields; *)
(* the closures that ui.eventHandler holds are the records                 *)
(*   [mode |-> "drag", win, x, y]  (win, lastX, lastY)  and                *)
(*   [mode |-> "crop", win, x, y]  (win, loc).                             *)

clickDistance == 10

KeyW == 119
KeyA == 97
KeyS == 115
KeyD == 100

\* A left-button test that any button satisfies.
AnyButtonDown(mask) == mask # 0

\* pointerEvent.ButtonMask&0b1 > 0 and pointerEvent.ButtonMask&0b100 > 0
LeftDown(mask) == mask % 2 = 1
RightDown(mask) == (mask \div 4) % 2 = 1

IndexOf(ws, id) == CHOOSE i \in 1..Len(ws) : ws[i].id = id

RECURSIVE TargetFrom(_, _, _, _)
\* The hit-test loop: a later window containing loc overrides an earlier one.
\* 0 stands for the code's -1.
TargetFrom(ws, loc, idx, target) ==
    IF idx > Len(ws) THEN target
    ELSE TargetFrom(ws, loc, idx + 1,
                    IF In(loc, ScreenRect(ws[idx])) THEN idx ELSE target)

\* A hit test that stops at the first window containing loc.
TargetLowest(ws, loc) ==
    IF \E i \in 1..Len(ws) : In(loc, ScreenRect(ws[i]))
    THEN CHOOSE i \in 1..Len(ws) :
            /\ In(loc, ScreenRect(ws[i]))
            /\ \A j \in 1..(i - 1) : ~In(loc, ScreenRect(ws[j]))
    ELSE 0

TargetWin(ws, loc) == TargetFrom(ws, loc, 1, 0)

\* The switch on keyEvent.KeySym: the crop after the fold.
FoldCrop(win, keySym, loc) ==
    LET b == win.img
        p == ScreenToWindow(win, loc)
    IN  CASE keySym = KeyW ->
               [win.crop EXCEPT !.Min.Y = IF @ # b.Min.Y THEN b.Min.Y ELSE p.Y]
          [] keySym = KeyA ->
               [win.crop EXCEPT !.Min.X = IF @ # b.Min.X THEN b.Min.X ELSE p.X]
          [] keySym = KeyS ->
               [win.crop EXCEPT !.Max.Y = IF @ # b.Max.Y THEN b.Max.Y ELSE p.Y]
          [] keySym = KeyD ->
               [win.crop EXCEPT !.Max.X = IF @ # b.Max.X THEN b.Max.X ELSE p.X]
          [] OTHER -> win.crop

\* The crop change followed by the shift of win.pos by (newMin - oldMin) * scale.
Reanchor(win, newcrop) ==
    [win EXCEPT !.crop = newcrop,
                !.pos = Pt(win.pos.X + ScaleDelta(win, newcrop.Min.X - win.crop.Min.X),
                           win.pos.Y + ScaleDelta(win, newcrop.Min.Y - win.crop.Min.Y))]

Fold(win, keySym, loc) == Reanchor(win, FoldCrop(win, keySym, loc))

defaultEventHandler(u, ke, pe) ==
    LET loc == Pt(pe.X, pe.Y)
        targetWin == TargetWin(u.windows, loc)
        folded == IF ~u.keyPressing /\ ke.Pressed /\ targetWin # 0
                  THEN [u EXCEPT !.windows[targetWin] = Fold(@, ke.KeySym, loc),
                                 !.keyPressing = TRUE]
                  ELSE u
        u2 == IF ~ke.Pressed THEN [folded EXCEPT !.keyPressing = FALSE] ELSE folded
        front == moveToFront(u2.windows, targetWin)
        n == Len(u2.windows)
    IN  IF LeftDown(pe.ButtonMask) /\ targetWin # 0
        THEN [u2 EXCEPT !.windows = [front EXCEPT ![n].moving = TRUE],
                        !.eventHandler = [mode |-> "drag", win |-> front[n].id,
                                          x |-> loc.X, y |-> loc.Y]]
        ELSE IF RightDown(pe.ButtonMask) /\ targetWin # 0
        THEN [u2 EXCEPT !.windows = front,
                        !.eventHandler = [mode |-> "crop", win |-> front[n].id,
                                          x |-> loc.X, y |-> loc.Y]]
        ELSE u2

\* A drag closure that keeps measuring from the press point: lastX, lastY
\* are not advanced.
draggingEventHandlerAnchored(u, ke, pe) ==
    LET h == u.eventHandler
        i == IndexOf(u.windows, h.win)
    IN  IF ~LeftDown(pe.ButtonMask)
        THEN [u EXCEPT !.windows[i].moving = FALSE, !.eventHandler = DefaultHandler]
        ELSE [u EXCEPT !.windows[i].pos = Pt(@.X + (pe.X - h.x), @.Y + (pe.Y - h.y))]

\* A drag closure whose release leaves win.moving set.
draggingEventHandlerSticky(u, ke, pe) ==
    LET h == u.eventHandler
        i == IndexOf(u.windows, h.win)
    IN  IF ~LeftDown(pe.ButtonMask)
        THEN [u EXCEPT !.eventHandler = DefaultHandler]
        ELSE [u EXCEPT !.windows[i].pos = Pt(@.X + (pe.X - h.x), @.Y + (pe.Y - h.y)),
                       !.eventHandler = [h EXCEPT !.x = pe.X, !.y = pe.Y]]

\* The closure installed by a left-button press.
draggingEventHandler(u, ke, pe) ==
    LET h == u.eventHandler
        i == IndexOf(u.windows, h.win)
    IN  IF ~LeftDown(pe.ButtonMask)
        THEN [u EXCEPT !.windows[i].moving = FALSE, !.eventHandler = DefaultHandler]
        ELSE [u EXCEPT !.windows[i].pos = Pt(@.X + (pe.X - h.x), @.Y + (pe.Y - h.y)),
                       !.eventHandler = [h EXCEPT !.x = pe.X, !.y = pe.Y]]

\* A click test that takes a distance of exactly 10 for a click.
IsClickInclusive(loc, loc2) ==
    (loc2.X - loc.X) * (loc2.X - loc.X) + (loc2.Y - loc.Y) * (loc2.Y - loc.Y)
        <= clickDistance * clickDistance

\* math.Hypot(dx, dy) < 10, on integers.
IsClick(loc, loc2) ==
    (loc2.X - loc.X) * (loc2.X - loc.X) + (loc2.Y - loc.Y) * (loc2.Y - loc.Y)
        < clickDistance * clickDistance

\* A toggle that does not remember the crop it replaces.
ToggleCropForgetting(win) ==
    Reanchor(win, IF win.img = win.crop THEN win.lastCrop ELSE win.img)

\* The click branch: toggle between the folded crop and the image bounds.
ToggleCrop(win) ==
    LET newcrop == IF win.img = win.crop THEN win.lastCrop ELSE win.img
    IN  [Reanchor(win, newcrop) EXCEPT !.lastCrop = win.crop]

\* A swipe branch that leaves the window where it was.
SelectCropInPlace(win, loc, loc2) ==
    [win EXCEPT !.crop = Canon(Rectangle(ScreenToWindow(win, loc), ScreenToWindow(win, loc2)))]

\* The drag branch: the swiped region becomes the crop.
SelectCrop(win, loc, loc2) ==
    LET newcrop == Canon(Rectangle(ScreenToWindow(win, loc), ScreenToWindow(win, loc2)))
    IN  [win EXCEPT !.pos = WindowToScreen(win, newcrop.Min), !.crop = newcrop]

\* A crop closure that shows the selection from the press point to the
\* pointer as given, without Canon.
croppingEventHandlerRaw(u, ke, pe) ==
    LET h == u.eventHandler
        i == IndexOf(u.windows, h.win)
        loc == Pt(h.x, h.y)
        loc2 == Pt(pe.X, pe.Y)
    IN  IF ~RightDown(pe.ButtonMask)
        THEN [u EXCEPT !.windows[i] = IF IsClick(loc, loc2) THEN ToggleCrop(@)
                                      ELSE SelectCrop(@, loc, loc2),
                       !.pendingCrop = ZR,
                       !.eventHandler = DefaultHandler]
        ELSE [u EXCEPT !.pendingCrop = Rectangle(loc, loc2)]

\* A crop closure whose release leaves the pending selection on the screen.
croppingEventHandlerKeeping(u, ke, pe) ==
    LET h == u.eventHandler
        i == IndexOf(u.windows, h.win)
        loc == Pt(h.x, h.y)
        loc2 == Pt(pe.X, pe.Y)
    IN  IF ~RightDown(pe.ButtonMask)
        THEN [u EXCEPT !.windows[i] = IF IsClick(loc, loc2) THEN ToggleCrop(@)
                                      ELSE SelectCrop(@, loc, loc2),
                       !.eventHandler = DefaultHandler]
        ELSE [u EXCEPT !.pendingCrop = Canon(Rectangle(loc, loc2))]

\* The closure installed by a right-button press.
croppingEventHandler(u, ke, pe) ==
    LET h == u.eventHandler
        i == IndexOf(u.windows, h.win)
        loc == Pt(h.x, h.y)
        loc2 == Pt(pe.X, pe.Y)
    IN  IF ~RightDown(pe.ButtonMask)
        THEN [u EXCEPT !.windows[i] = IF IsClick(loc, loc2) THEN ToggleCrop(@)
                                      ELSE SelectCrop(@, loc, loc2),
                       !.pendingCrop = ZR,
                       !.eventHandler = DefaultHandler]
        ELSE [u EXCEPT !.pendingCrop = Canon(Rectangle(loc, loc2))]

\* UI.Update: runs the current event handler on the last observed events (the
\* painting that follows changes no field of the UI).
Update(u, ke, pe) ==
    CASE u.eventHandler.mode = "default" -> defaultEventHandler(u, ke, pe)
      [] u.eventHandler.mode = "drag" -> draggingEventHandler(u, ke, pe)
      [] u.eventHandler.mode = "crop" -> croppingEventHandler(u, ke, pe)

ui == [windows |-> windows, pendingCrop |-> pendingCrop, keyPressing |-> keyPressing,
       eventHandler |-> eventHandler]

SetUI(u) ==
    /\ windows' = u.windows
    /\ pendingCrop' = u.pendingCrop
    /\ keyPressing' = u.keyPressing
    /\ eventHandler' = u.eventHandler

\* The positions the model follows: every window within MaxPos of the origin.
PosBounded(u) ==
    \A i \in 1..Len(u.windows) :
        /\ u.windows[i].pos.X \in -MaxPos..MaxPos
        /\ u.windows[i].pos.Y \in -MaxPos..MaxPos

----------------------------------------------------------------------------
(* rfb/image.go. A uint32 pixel is the set of its one-bits (0 = least      *)
(* significant); channel values, which never exceed 0xffff, are integers.  *)

MaxUint16 == 65535
MaxUint8 == 255

BitsOf(v) == { i \in 0..15 : (v \div (2 ^ i)) % 2 = 1 }

RECURSIVE ValueFrom(_, _)
ValueFrom(bits, i) ==
    IF i > 15 THEN 0 ELSE (IF i \in bits THEN 2 ^ i ELSE 0) + ValueFrom(bits, i + 1)

\* The integer whose one-bits are `bits`, a subset of 0..15.
ValueOf(bits) == ValueFrom(bits, 0)

\* uint32(v) << shift: bits shifted past bit 31 are lost.
Shl(v, shift) == { i + shift : i \in BitsOf(v) } \cap (0..31)

\* pixel & max: the mask without the shift.
ExtractUnshifted(pixel, shift, max) == ValueOf(pixel \cap BitsOf(max))

\* (pixel >> shift) & max
Extract(pixel, shift, max) ==
    ValueOf({ i - shift : i \in { j \in pixel : j >= shift } } \cap BitsOf(max))

\* byte(pixel >> (8 * k))
ByteOf(pixel, k) == ValueOf({ i - 8 * k : i \in { j \in pixel : j \div 8 = k } })

\* The one-bits of byte b when it is byte k of a word.
ByteBits(b, k) == { i + 8 * k : i \in BitsOf(b) }

\* binary.ByteOrder.PutUint32 / PutUint16 / Uint32 / Uint16
PutUint32(bo, pixel) ==
    IF bo = "BigEndian"
    THEN <<ByteOf(pixel, 3), ByteOf(pixel, 2), ByteOf(pixel, 1), ByteOf(pixel, 0)>>
    ELSE <<ByteOf(pixel, 0), ByteOf(pixel, 1), ByteOf(pixel, 2), ByteOf(pixel, 3)>>

\* A PutUint16 that is big-endian whatever the byte order.
PutUint16BigEndian(bo, pixel) == <<ByteOf(pixel, 1), ByteOf(pixel, 0)>>

PutUint16(bo, pixel) ==
    IF bo = "BigEndian" THEN <<ByteOf(pixel, 1), ByteOf(pixel, 0)>>
    ELSE <<ByteOf(pixel, 0), ByteOf(pixel, 1)>>

Uint32(bo, b) ==
    IF bo = "BigEndian"
    THEN ByteBits(b[1], 3) \cup ByteBits(b[2], 2) \cup ByteBits(b[3], 1) \cup ByteBits(b[4], 0)
    ELSE ByteBits(b[1], 0) \cup ByteBits(b[2], 1) \cup ByteBits(b[3], 2) \cup ByteBits(b[4], 3)

Uint16(bo, b) ==
    IF bo = "BigEndian" THEN ByteBits(b[1], 1) \cup ByteBits(b[2], 0)
    ELSE ByteBits(b[1], 0) \cup ByteBits(b[2], 1)

\* The bytes a pixel occupies in Pix, and the pixel those bytes hold.
PixelBytes(pf, bo, pixel) ==
    CASE pf.BitsPerPixel = 8 -> <<ByteOf(pixel, 0)>>
      [] pf.BitsPerPixel = 16 -> PutUint16(bo, pixel)
      [] pf.BitsPerPixel = 32 -> PutUint32(bo, pixel)

BytesPixel(pf, bo, b) ==
    CASE pf.BitsPerPixel = 8 -> ByteBits(b[1], 0)
      [] pf.BitsPerPixel = 16 -> Uint16(bo, b)
      [] pf.BitsPerPixel = 32 -> Uint32(bo, b)

\* NewPixelFormatImage; Pix is zero-filled.
NewPixelFormatImage(pf, bounds) ==
    IF pf.RedMax > MaxUint16 \/ pf.GreenMax > MaxUint16 \/ pf.BlueMax > MaxUint16
    THEN [err |-> "max"]
    ELSE IF pf.BitsPerPixel # 32 /\ pf.BitsPerPixel # 16 /\ pf.BitsPerPixel # 8
    THEN [err |-> "BitsPerPixel"]
    ELSE LET bytesPerPixel == pf.BitsPerPixel \div 8
         IN  [err |-> "",
              Pix |-> [i \in 1..(bytesPerPixel * Dx(bounds) * Dy(bounds)) |-> 0],
              Rect |-> bounds,
              PixelFormat |-> pf,
              bo |-> IF pf.BigEndian THEN "BigEndian" ELSE "LittleEndian",
              bytesPerPixel |-> bytesPerPixel]

\* PixelFormatImage.idx, as an offset into Pix (0-based).
idx(img, x, y) ==
    (img.bytesPerPixel * Dx(img.Rect)) * (y - img.Rect.Min.Y)
        + img.bytesPerPixel * (x - img.Rect.Min.X)

\* Pix with the bytes b written at offset off.
Store(pixels, off, b) ==
    [k \in 1..Len(pixels) |->
        IF k > off /\ k <= off + Len(b) THEN b[k - off] ELSE pixels[k]]

\* PixelFormatImage.Set with the colour's RGBA() = (c.R, c.G, c.B, c.A), 16 bits each.
Set(img, x, y, c) ==
    LET pf == img.PixelFormat
        pixel == Shl((c.R * pf.RedMax) \div MaxUint16, pf.RedShift)
                 \cup Shl((c.G * pf.GreenMax) \div MaxUint16, pf.GreenShift)
                 \cup Shl((c.B * pf.BlueMax) \div MaxUint16, pf.BlueShift)
    IN  [img EXCEPT !.Pix = Store(@, idx(img, x, y), PixelBytes(pf, img.bo, pixel))]

\* PixelFormatImage.At: the PixelFormatColor of the pixel.
At(img, x, y) ==
    LET off == idx(img, x, y)
    IN  [Pixel |-> BytesPixel(img.PixelFormat, img.bo,
                              SubSeq(img.Pix, off + 1, off + img.bytesPerPixel)),
         PixelFormat |-> img.PixelFormat]

\* PixelFormatColor.RGBA; a channel maximum of 0 divides by zero.
RGBA(c) ==
    LET pf == c.PixelFormat
    IN  IF pf.RedMax = 0 \/ pf.GreenMax = 0 \/ pf.BlueMax = 0
        THEN [panic |-> TRUE, R |-> 0, G |-> 0, B |-> 0, A |-> 0]
        ELSE [panic |-> FALSE,
              R |-> (Extract(c.Pixel, pf.RedShift, pf.RedMax) * MaxUint16) \div pf.RedMax,
              G |-> (Extract(c.Pixel, pf.GreenShift, pf.GreenMax) * MaxUint16) \div pf.GreenMax,
              B |-> (Extract(c.Pixel, pf.BlueShift, pf.BlueMax) * MaxUint16) \div pf.BlueMax,
              A |-> MaxUint16]

RECURSIVE CopyFromLoop(_, _, _)
\* The loop of CopyFromRGBA from source pixel n (0-based) on; src is the Pix of
\* an image.RGBA, four bytes a pixel.
CopyFromLoop(dst, src, n) ==
    IF 4 * n >= Len(src) THEN dst
    ELSE LET pf == dst.PixelFormat
             pixel == Shl((src[4 * n + 1] * pf.RedMax) \div MaxUint8, pf.RedShift)
                      \cup Shl((src[4 * n + 2] * pf.GreenMax) \div MaxUint8, pf.GreenShift)
                      \cup Shl((src[4 * n + 3] * pf.BlueMax) \div MaxUint8, pf.BlueShift)
         IN  CopyFromLoop([dst EXCEPT !.Pix = Store(@, dst.bytesPerPixel * n,
                                                    PixelBytes(pf, dst.bo, pixel))],
                          src, n + 1)

\* CopyFromRGBA(src) with src = [Rect, Pix]: the error, or the image written.
CopyFromRGBA(dst, src) ==
    IF src.Rect # dst.Rect THEN [err |-> "bounds", img |-> dst]
    ELSE [err |-> "", img |-> CopyFromLoop(dst, src.Pix, 0)]

RECURSIVE CopyToLoop(_, _, _)
\* The loop of CopyToRGBA from source pixel n (0-based) on; the result is the
\* Pix of the image.RGBA.
CopyToLoop(src, dstPix, n) ==
    IF src.bytesPerPixel * n >= Len(src.Pix) THEN dstPix
    ELSE LET pf == src.PixelFormat
             off == src.bytesPerPixel * n
             pixel == BytesPixel(pf, src.bo, SubSeq(src.Pix, off + 1, off + src.bytesPerPixel))
             r == Extract(pixel, pf.RedShift, pf.RedMax)
             g == Extract(pixel, pf.GreenShift, pf.GreenMax)
             b == Extract(pixel, pf.BlueShift, pf.BlueMax)
         IN  CopyToLoop(src,
                        Store(dstPix, 4 * n,
                              <<((r * MaxUint8) \div pf.RedMax) % 256,
                                ((g * MaxUint8) \div pf.GreenMax) % 256,
                                ((b * MaxUint8) \div pf.BlueMax) % 256,
                                MaxUint8>>),
                        n + 1)

\* CopyToRGBA(dst) with dst = [Rect, Pix]; a channel maximum of 0 divides by zero.
CopyToRGBA(src, dst) ==
    IF src.Rect # dst.Rect THEN [err |-> "bounds", panic |-> FALSE, Pix |-> dst.Pix]
    ELSE IF Len(src.Pix) > 0 /\ (src.PixelFormat.RedMax = 0 \/ src.PixelFormat.GreenMax = 0
                                 \/ src.PixelFormat.BlueMax = 0)
    THEN [err |-> "", panic |-> TRUE, Pix |-> dst.Pix]
    ELSE [err |-> "", panic |-> FALSE, Pix |-> CopyToLoop(src, dst.Pix, 0)]

----------------------------------------------------------------------------
(* rfb/rfb.go: the decoders of the client's messages. A message on the     *)
(* wire is a record of its fields as sent, its first byte in `tag`;        *)
(* complete = FALSE is a stream that ends (or fails) inside the message,   *)
(* which io.ReadFull reports as an error.                                  *)

\* PixelFormat.Read: the two flag bytes become booleans.
PixelFormatRead(w) ==
    [BitsPerPixel |-> w.BitsPerPixel, BitDepth |-> w.BitDepth,
     BigEndian |-> w.BigEndianFlag # 0, TrueColor |-> w.TrueColorFlag # 0,
     RedMax |-> w.RedMax, GreenMax |-> w.GreenMax, BlueMax |-> w.BlueMax,
     RedShift |-> w.RedShift, GreenShift |-> w.GreenShift, BlueShift |-> w.BlueShift]

\* PixelFormat.Write
PixelFormatWrite(pf) ==
    [BitsPerPixel |-> pf.BitsPerPixel, BitDepth |-> pf.BitDepth,
     BigEndianFlag |-> IF pf.BigEndian THEN 1 ELSE 0,
     TrueColorFlag |-> IF pf.TrueColor THEN 1 ELSE 0,
     RedMax |-> pf.RedMax, GreenMax |-> pf.GreenMax, BlueMax |-> pf.BlueMax,
     RedShift |-> pf.RedShift, GreenShift |-> pf.GreenShift, BlueShift |-> pf.BlueShift]

SetPixelFormatRead(m) ==
    IF ~m.complete THEN [err |-> "EOF"]
    ELSE IF m.tag # 0 THEN [err |-> "type"]
    ELSE [err |-> "", PixelFormat |-> PixelFormatRead(m.PixelFormat)]

\* len(buf)/4 with buf [255]byte
maxEncodings == 63
\* len(buf) with buf [255]byte
maxTextLength == 255

\* A SetEncodings decoder that takes the count for the number of bytes that
\* follow the header.
SetEncodingsReadUnscaled(m) ==
    IF ~m.headerComplete THEN [err |-> "EOF"]
    ELSE IF m.tag # 2 THEN [err |-> "type"]
    ELSE IF m.count > maxEncodings THEN [err |-> "too many encodings"]
    ELSE IF ~m.complete THEN [err |-> "EOF"]
    ELSE [err |-> "", count |-> m.count, read |-> 4 + m.count]

\* SetEncodingsMessage.Read. read is the number of bytes taken from the
\* stream: io.ReadFull of buf[:4], then of buf[:encodingCount*4], the product
\* being a uint16.
SetEncodingsRead(m) ==
    IF ~m.headerComplete THEN [err |-> "EOF"]
    ELSE IF m.tag # 2 THEN [err |-> "type"]
    ELSE IF m.count > maxEncodings THEN [err |-> "too many encodings"]
    ELSE IF ~m.complete THEN [err |-> "EOF"]
    ELSE [err |-> "", count |-> m.count, read |-> 4 + ((m.count * 4) % (MaxUint16 + 1))]

FramebufferUpdateRequestRead(m) ==
    IF ~m.complete THEN [err |-> "EOF"]
    ELSE IF m.tag # 3 THEN [err |-> "type"]
    ELSE [err |-> "", Incremental |-> m.incremental # 0,
          X |-> m.X, Y |-> m.Y, Width |-> m.Width, Height |-> m.Height]

\* KeyEventMessage.Read into the message `old`: an error leaves it as it was.
KeyEventRead(old, m) ==
    IF ~m.complete THEN [err |-> "EOF", msg |-> old]
    ELSE IF m.tag # 4 THEN [err |-> "type", msg |-> old]
    ELSE [err |-> "", msg |-> [Pressed |-> m.down # 0, KeySym |-> m.KeySym]]

\* PointerEventMessage.Read into the message `old`.
PointerEventRead(old, m) ==
    IF ~m.complete THEN [err |-> "EOF", msg |-> old]
    ELSE IF m.tag # 5 THEN [err |-> "type", msg |-> old]
    ELSE [err |-> "", msg |-> [ButtonMask |-> m.ButtonMask, X |-> m.X, Y |-> m.Y]]

\* ClientCutTextMessage.Read. read is the number of bytes taken from the
\* stream: io.ReadFull of buf[:8], then of buf[:textLength].
ClientCutTextRead(m) ==
    IF ~m.headerComplete THEN [err |-> "EOF"]
    ELSE IF m.tag # 6 THEN [err |-> "type"]
    ELSE IF m.length > maxTextLength THEN [err |-> "text length too long"]
    ELSE IF ~m.complete THEN [err |-> "EOF"]
    ELSE [err |-> "", length |-> m.length, read |-> 8 + m.length]

\* FramebufferUpdateMessage.Write with FramebufferUpdateRect.Write: the message
\* as it goes on the wire. The pixel bytes are given by their number.
FramebufferUpdateWrite(rectangles) ==
    [type |-> 0, count |-> Len(rectangles) % (MaxUint16 + 1),
     rects |-> [i \in 1..Len(rectangles) |->
                  [X |-> rectangles[i].X, Y |-> rectangles[i].Y,
                   Width |-> rectangles[i].Width, Height |-> rectangles[i].Height,
                   EncodingType |-> rectangles[i].EncodingType,
                   nbytes |-> rectangles[i].PixelData.nbytes,
                   format |-> rectangles[i].PixelData.format]]]

----------------------------------------------------------------------------
(* rfbServe: the handshake.                                                *)

\* An order that goes from the version exchange straight to the
\* ClientInitialisation, leaving the authentication out.
StepAfterSkippingAuth(step) ==
    CASE step = "WriteProtocolVersion" -> "ReadProtocolVersion"
      [] step = "ReadProtocolVersion" -> "ReadClientInit"
      [] step = "WriteAuthScheme" -> "WriteAuthChallenge"
      [] step = "WriteAuthChallenge" -> "ReadAuthResponse"
      [] step = "ReadAuthResponse" -> "WriteAuthResult"
      [] step = "WriteAuthResult" -> "ReadClientInit"
      [] step = "ReadClientInit" -> "CreateUI"
      [] step = "CreateUI" -> "WriteServerInit"
      [] step = "WriteServerInit" -> "Loop"

\* The order of the statements of rfbServe up to the message loop.
StepAfter(step) ==
    CASE step = "WriteProtocolVersion" -> "ReadProtocolVersion"
      [] step = "ReadProtocolVersion" -> "WriteAuthScheme"
      [] step = "WriteAuthScheme" -> "WriteAuthChallenge"
      [] step = "WriteAuthChallenge" -> "ReadAuthResponse"
      [] step = "ReadAuthResponse" -> "WriteAuthResult"
      [] step = "WriteAuthResult" -> "ReadClientInit"
      [] step = "ReadClientInit" -> "CreateUI"
      [] step = "CreateUI" -> "WriteServerInit"
      [] step = "WriteServerInit" -> "Loop"

\* The zero value of a [16]byte.
ZeroBytes16 == [i \in 1..16 |-> 0]

\* A server that checks the response: only the all-zero one is accepted.
authResultChecked(response) ==
    IF response = ZeroBytes16 THEN VNCAuthenticationResultOK
    ELSE VNCAuthenticationResultFailed

\* authResult := rfb.VNCAuthenticationResultMessage{rfb.VNCAuthenticationResultOK}
authResult(response) == VNCAuthenticationResultOK

Title == <<"f", "r", "e", "e", "t", "h", "u", "m", "b">>

\* What the ghost lastMsg keeps of a message: its first byte and, of a
\* FramebufferUpdateRequest, the rectangle asked for.
Seen(m) ==
    IF m.tag = 3
    THEN [tag |-> 3, X |-> m.X, Y |-> m.Y, Width |-> m.Width, Height |-> m.Height]
    ELSE [tag |-> m.tag, X |-> 0, Y |-> 0, Width |-> 0, Height |-> 0]

NoMsg == Seen([tag |-> -1])
NoFormat == [BitsPerPixel |-> -1]

Fail(e) == pc' = "Error" /\ err' = e
Log(op, msg, val) == io' = Append(io, [op |-> op, msg |-> msg, val |-> val])

loopVars == <<pixelFormat, keyEvent, pointerEvent, lastMsg, setFormat, out>>

\* A version test that looks at the major number only.
UnsupportedMajor(v) == v.Major # 3

\* protocolVersion.Major != 3 || protocolVersion.Minor != 3
UnsupportedVersion(v) == v.Major # 3 \/ v.Minor # 3

WriteProtocolVersion ==
    /\ pc = "WriteProtocolVersion"
    /\ \E ok \in BOOLEAN :
         LET w == ProtocolVersionWrite(3, 3)
         IN  IF w.err # "" \/ ~ok
             THEN Fail("write ProtocolVersion") /\ UNCHANGED io
             ELSE /\ pc' = StepAfter(pc)
                  /\ Log("write", "ProtocolVersion", w.buf)
                  /\ UNCHANGED err
    /\ UNCHANGED <<authResponse, loopVars, uiVars, pixelVars, other>>

ReadProtocolVersion(replies) ==
    /\ pc = "ReadProtocolVersion"
    /\ \E buf \in replies :
         LET r == ProtocolVersionRead(buf)
         IN  IF r.err # ""
             THEN Fail("read ProtocolVersion") /\ UNCHANGED io
             ELSE /\ Log("read", "ProtocolVersion", buf)
                  /\ IF UnsupportedVersion(r)
                     THEN Fail("only version 3.3 is supported")
                     ELSE pc' = StepAfter(pc) /\ UNCHANGED err
    /\ UNCHANGED <<authResponse, loopVars, uiVars, pixelVars, other>>

WriteAuthScheme ==
    /\ pc = "WriteAuthScheme"
    /\ \E ok \in BOOLEAN :
         IF ~ok THEN Fail("write VNC auth scheme") /\ UNCHANGED io
         ELSE /\ pc' = StepAfter(pc)
              /\ Log("write", "AuthenticationScheme", AuthenticationSchemeVNC)
              /\ UNCHANGED err
    /\ UNCHANGED <<authResponse, loopVars, uiVars, pixelVars, other>>

WriteAuthChallenge ==
    /\ pc = "WriteAuthChallenge"
    /\ \E ok \in BOOLEAN :
         IF ~ok THEN Fail("write VNC auth challenge") /\ UNCHANGED io
         ELSE /\ pc' = StepAfter(pc)
              /\ Log("write", "VNCAuthenticationChallenge", ZeroBytes16)
              /\ UNCHANGED err
    /\ UNCHANGED <<authResponse, loopVars, uiVars, pixelVars, other>>

\* A response is the 16 bytes the client sent; fewer bytes fail io.ReadFull.
ReadAuthResponse(responses) ==
    /\ pc = "ReadAuthResponse"
    /\ \E bytes \in responses :
         IF Len(bytes) < 16
         THEN Fail("read VNC auth response") /\ UNCHANGED <<io, authResponse>>
         ELSE /\ pc' = StepAfter(pc)
              /\ authResponse' = bytes
              /\ Log("read", "VNCAuthenticationResponse", bytes)
              /\ UNCHANGED err
    /\ UNCHANGED <<loopVars, uiVars, pixelVars, other>>

WriteAuthResult ==
    /\ pc = "WriteAuthResult"
    /\ \E ok \in BOOLEAN :
         IF ~ok THEN Fail("write VNC auth result") /\ UNCHANGED io
         ELSE /\ pc' = StepAfter(pc)
              /\ Log("write", "VNCAuthenticationResult", authResult(authResponse))
              /\ UNCHANGED err
    /\ UNCHANGED <<authResponse, loopVars, uiVars, pixelVars, other>>

\* shared is the byte of the ClientInitialisation, or -1 for a closed stream.
ReadClientInit(sharedBytes) ==
    /\ pc = "ReadClientInit"
    /\ \E shared \in sharedBytes :
         IF shared < 0 THEN Fail("read ClientInitialisation") /\ UNCHANGED io
         ELSE /\ pc' = StepAfter(pc)
              /\ Log("read", "ClientInitialisation", shared # 0)
              /\ UNCHANGED err
    /\ UNCHANGED <<authResponse, loopVars, uiVars, pixelVars, other>>

CreateUI(dirs) ==
    /\ pc = "CreateUI"
    /\ \E dir \in dirs :
         LET r == NewUI(dir)
         IN  IF r.err # "" THEN Fail("create UI") /\ UNCHANGED uiVars
             ELSE /\ pc' = StepAfter(pc)
                  /\ SetUI([windows |-> r.windows, pendingCrop |-> ZR,
                            keyPressing |-> FALSE, eventHandler |-> DefaultHandler])
                  /\ UNCHANGED err
    /\ UNCHANGED <<io, authResponse, loopVars, pixelVars, other>>

ServerInit ==
    [FramebufferWidth |-> windowWidth % (MaxUint16 + 1),
     FramebufferHeight |-> windowHeight % (MaxUint16 + 1),
     PixelFormat |-> PixelFormatWrite(pixelFormat),
     NameLength |-> Len(Title), Name |-> Title]

WriteServerInit ==
    /\ pc = "WriteServerInit"
    /\ \E ok \in BOOLEAN :
         IF ~ok THEN Fail("write ServerInitialisation") /\ UNCHANGED io
         ELSE /\ pc' = StepAfter(pc)
              /\ Log("write", "ServerInitialisation", ServerInit)
              /\ UNCHANGED err
    /\ UNCHANGED <<authResponse, loopVars, uiVars, pixelVars, other>>

----------------------------------------------------------------------------
(* rfbServe: the message loop. Each action is one iteration: the Peek of   *)
(* the type byte, the decoder of that case and what the case does.         *)

\* r.Peek(1) fails: the client closed the connection, or the read failed.
PeekFail ==
    /\ pc = "Loop"
    /\ Fail("read message type")
    /\ out' = <<>>
    /\ UNCHANGED <<io, authResponse, pixelFormat, keyEvent, pointerEvent, lastMsg,
                   setFormat, uiVars, pixelVars, other>>

\* A case 0 that decodes the message and does not assign pixelFormat.
SetPixelFormatDropped(msgs) ==
    /\ pc = "Loop"
    /\ \E m \in msgs :
         /\ m.tag = 0
         /\ lastMsg' = Seen(m)
         /\ out' = <<>>
         /\ LET d == SetPixelFormatRead(m)
            IN  IF d.err # ""
                THEN Fail("read SetPixelFormat") /\ UNCHANGED <<pixelFormat, setFormat>>
                ELSE /\ pixelFormat' = pixelFormat
                     /\ setFormat' = d.PixelFormat
                     /\ UNCHANGED <<pc, err>>
    /\ UNCHANGED <<io, authResponse, keyEvent, pointerEvent, uiVars, pixelVars, other>>

\* case 0
SetPixelFormat(msgs) ==
    /\ pc = "Loop"
    /\ \E m \in msgs :
         /\ m.tag = 0
         /\ lastMsg' = Seen(m)
         /\ out' = <<>>
         /\ LET d == SetPixelFormatRead(m)
            IN  IF d.err # ""
                THEN Fail("read SetPixelFormat") /\ UNCHANGED <<pixelFormat, setFormat>>
                ELSE /\ pixelFormat' = d.PixelFormat
                     /\ setFormat' = d.PixelFormat
                     /\ UNCHANGED <<pc, err>>
    /\ UNCHANGED <<io, authResponse, keyEvent, pointerEvent, uiVars, pixelVars, other>>

\* case 2
SetEncodings(msgs) ==
    /\ pc = "Loop"
    /\ \E m \in msgs :
         /\ m.tag = 2
         /\ lastMsg' = Seen(m)
         /\ out' = <<>>
         /\ IF SetEncodingsRead(m).err # ""
            THEN Fail("read SetEncodings")
            ELSE UNCHANGED <<pc, err>>
    /\ UNCHANGED <<io, authResponse, pixelFormat, setFormat, keyEvent, pointerEvent,
                   uiVars, pixelVars, other>>

\* The rectangle rfbServe sends for the request m, rendered into img2.
UpdateRect(m, img2) ==
    [X |-> m.X, Y |-> m.Y, Width |-> m.Width, Height |-> m.Height,
     EncodingType |-> 0,
     PixelData |-> [nbytes |-> Len(img2.Pix), format |-> img2.PixelFormat]]

\* case 3. outcome is what the connection does with the reply: "ok", or the
\* failure of update.Write or of w.Flush. NewPixelFormatImage's error is not
\* looked at: drawing into the image it did not return panics.
FramebufferUpdateRequest(msgs) ==
    /\ pc = "Loop"
    /\ \E m \in msgs, outcome \in {"ok", "write", "flush"} :
         /\ m.tag = 3
         /\ lastMsg' = Seen(m)
         /\ LET d == FramebufferUpdateRequestRead(m)
            IN  IF d.err # ""
                THEN /\ outcome = "ok"
                     /\ Fail("read FramebufferUpdateRequest")
                     /\ out' = <<>>
                     /\ UNCHANGED uiVars
                ELSE LET r == Rect(d.X, d.Y, d.X + d.Width, d.Y + d.Height)
                         u == Update(ui, keyEvent, pointerEvent)
                         img2 == NewPixelFormatImage(pixelFormat, r)
                     IN  /\ PosBounded(u)
                         /\ SetUI(u)
                         /\ IF img2.err # ""
                            THEN /\ outcome = "ok"
                                 /\ pc' = "Panic"
                                 /\ out' = <<>>
                                 /\ UNCHANGED err
                            ELSE CASE outcome = "write" ->
                                        Fail("write FramebufferUpdate") /\ out' = <<>>
                                   [] outcome = "flush" ->
                                        Fail("flush FramebufferUpdate") /\ out' = <<>>
                                   [] outcome = "ok" ->
                                        /\ out' = <<FramebufferUpdateWrite(<<UpdateRect(d, img2)>>)>>
                                        /\ UNCHANGED <<pc, err>>
    /\ UNCHANGED <<io, authResponse, pixelFormat, setFormat, keyEvent, pointerEvent,
                   pixelVars, other>>

\* case 4
KeyEvent(msgs) ==
    /\ pc = "Loop"
    /\ \E m \in msgs :
         /\ m.tag = 4
         /\ lastMsg' = Seen(m)
         /\ out' = <<>>
         /\ LET d == KeyEventRead(keyEvent, m)
            IN  /\ keyEvent' = d.msg
                /\ IF d.err # ""
                   THEN Fail("read KeyEvent") /\ UNCHANGED uiVars
                   ELSE LET u == Update(ui, d.msg, pointerEvent)
                        IN  PosBounded(u) /\ SetUI(u) /\ UNCHANGED <<pc, err>>
    /\ UNCHANGED <<io, authResponse, pixelFormat, setFormat, pointerEvent, pixelVars, other>>

\* case 5
PointerEvent(msgs) ==
    /\ pc = "Loop"
    /\ \E m \in msgs :
         /\ m.tag = 5
         /\ lastMsg' = Seen(m)
         /\ out' = <<>>
         /\ LET d == PointerEventRead(pointerEvent, m)
            IN  /\ pointerEvent' = d.msg
                /\ IF d.err # ""
                   THEN Fail("read PointerEvent") /\ UNCHANGED uiVars
                   ELSE LET u == Update(ui, keyEvent, d.msg)
                        IN  PosBounded(u) /\ SetUI(u) /\ UNCHANGED <<pc, err>>
    /\ UNCHANGED <<io, authResponse, pixelFormat, setFormat, keyEvent, pixelVars, other>>

\* case 6
ClientCutText(msgs) ==
    /\ pc = "Loop"
    /\ \E m \in msgs :
         /\ m.tag = 6
         /\ lastMsg' = Seen(m)
         /\ out' = <<>>
         /\ IF ClientCutTextRead(m).err # ""
            THEN Fail("read ClientCutText")
            ELSE UNCHANGED <<pc, err>>
    /\ UNCHANGED <<io, authResponse, pixelFormat, setFormat, keyEvent, pointerEvent,
                   uiVars, pixelVars, other>>

\* A default case that skips the byte and goes on with the loop.
UnrecognizedMessageSkipped(tags) ==
    /\ pc = "Loop"
    /\ \E t \in tags :
         /\ t \notin {0, 2, 3, 4, 5, 6}
         /\ lastMsg' = Seen([tag |-> t])
         /\ out' = <<>>
         /\ UNCHANGED <<pc, err>>
    /\ UNCHANGED <<io, authResponse, pixelFormat, setFormat, keyEvent, pointerEvent,
                   uiVars, pixelVars, other>>

\* default: any other first byte.
UnrecognizedMessage(tags) ==
    /\ pc = "Loop"
    /\ \E t \in tags :
         /\ t \notin {0, 2, 3, 4, 5, 6}
         /\ lastMsg' = Seen([tag |-> t])
         /\ out' = <<>>
         /\ Fail("received unrecognized message type")
    /\ UNCHANGED <<io, authResponse, pixelFormat, setFormat, keyEvent, pointerEvent,
                   uiVars, pixelVars, other>>

----------------------------------------------------------------------------
(* What the client sends: the inputs of the protocol specification Spec.   *)

WireFormat(bpp, depth, be, tc, rgbMax, rgbShift) ==
    [BitsPerPixel |-> bpp, BitDepth |-> depth, BigEndianFlag |-> be, TrueColorFlag |-> tc,
     RedMax |-> rgbMax[1], GreenMax |-> rgbMax[2], BlueMax |-> rgbMax[3],
     RedShift |-> rgbShift[1], GreenShift |-> rgbShift[2], BlueShift |-> rgbShift[3]]

\* 32-bit little-endian-flagged true colour, RGB565, the 8-bit format of the
\* tests, a 24-bit format (unsupported) and a palette format (unsupported).
Format888 == WireFormat(32, 24, 2, 1, <<255, 255, 255>>, <<16, 8, 0>>)
Format565 == WireFormat(16, 16, 0, 1, <<31, 63, 31>>, <<11, 5, 0>>)
FormatWeird == WireFormat(8, 6, 0, 1, <<3, 3, 15>>, <<6, 4, 0>>)
Format24bpp == WireFormat(24, 24, 0, 1, <<255, 255, 255>>, <<16, 8, 0>>)
FormatPalette == WireFormat(8, 8, 0, 0, <<255, 255, 255>>, <<16, 8, 0>>)

ProtoFormats == {Format888, Format565, FormatWeird, Format24bpp, FormatPalette}

ProtoSetPixelFormatMsgs ==
    { [tag |-> 0, complete |-> TRUE, PixelFormat |-> w] : w \in ProtoFormats }
    \cup { [tag |-> 0, complete |-> FALSE, PixelFormat |-> Format565] }

ProtoSetEncodingsMsgs ==
    { [tag |-> 2, headerComplete |-> TRUE, complete |-> TRUE, count |-> n] :
         n \in {0, 2, maxEncodings, maxEncodings + 1} }
    \cup { [tag |-> 2, headerComplete |-> TRUE, complete |-> FALSE, count |-> 2],
           [tag |-> 2, headerComplete |-> FALSE, complete |-> FALSE, count |-> 0] }

RequestMsg(complete, incremental, x, y, w, h) ==
    [tag |-> 3, complete |-> complete, incremental |-> incremental,
     X |-> x, Y |-> y, Width |-> w, Height |-> h]

ProtoRequestMsgs ==
    { RequestMsg(TRUE, 0, 0, 0, 3, 2), RequestMsg(TRUE, 1, 1, 2, 2, 0),
      RequestMsg(FALSE, 0, 0, 0, 3, 2) }

KeyMsg(complete, down, keySym) ==
    [tag |-> 4, complete |-> complete, down |-> down, KeySym |-> keySym]

ProtoKeyMsgs == { KeyMsg(TRUE, 1, KeyW), KeyMsg(TRUE, 0, KeyW), KeyMsg(FALSE, 1, KeyW) }

PointerMsg(complete, mask, x, y) ==
    [tag |-> 5, complete |-> complete, ButtonMask |-> mask, X |-> x, Y |-> y]

ProtoPointerMsgs ==
    { PointerMsg(TRUE, mask, x, 2) : mask \in {0, 1}, x \in {2, 10} }
    \cup { PointerMsg(FALSE, 1, 10, 2) }

ProtoCutTextMsgs ==
    { [tag |-> 6, headerComplete |-> TRUE, complete |-> TRUE, length |-> n] :
         n \in {0, maxTextLength, maxTextLength + 1} }
    \cup { [tag |-> 6, headerComplete |-> TRUE, complete |-> FALSE, length |-> 5],
           [tag |-> 6, headerComplete |-> FALSE, complete |-> FALSE, length |-> 0] }

\* FixColourMapEntries and two bytes that are no client message at all.
ProtoOtherTags == {1, 7, 255}

ProtoAuthResponses == { ZeroBytes16, [i \in 1..16 |-> 255], <<1, 2, 3>> }

ProtoSharedBytes == {-1, 0, 1}

Directory(readable, files) == [readable |-> readable, files |-> files]

ProtoDirs ==
    { Directory(FALSE, <<>>),
      Directory(TRUE, <<BadFile(1), ImageFile(2, 16, 12)>>) }

----------------------------------------------------------------------------
(* The protocol specification: one connection, from the first write on.    *)

\* No second connection has been accepted.
NoConnection == [pc |-> "None"]

PixelIdle ==
    /\ pin = [kind |-> "none"]
    /\ pfmt = InitialPixelFormat
    /\ pix = <<>>
    /\ pout = <<>>
    /\ pstage = "idle"

Init ==
    /\ pc = "WriteProtocolVersion"
    /\ err = ""
    /\ io = <<>>
    /\ pixelFormat = InitialPixelFormat
    /\ authResponse = ZeroBytes16
    /\ keyEvent = [Pressed |-> FALSE, KeySym |-> 0]
    /\ pointerEvent = [ButtonMask |-> 0, X |-> 0, Y |-> 0]
    /\ lastMsg = NoMsg
    /\ setFormat = NoFormat
    /\ out = <<>>
    /\ windows = <<>>
    /\ pendingCrop = ZR
    /\ keyPressing = FALSE
    /\ eventHandler = DefaultHandler
    /\ PixelIdle
    /\ other = NoConnection

Next ==
    \/ WriteProtocolVersion
    \/ ReadProtocolVersion(ClientVersionReplies)
    \/ WriteAuthScheme
    \/ WriteAuthChallenge
    \/ ReadAuthResponse(ProtoAuthResponses)
    \/ WriteAuthResult
    \/ ReadClientInit(ProtoSharedBytes)
    \/ CreateUI(ProtoDirs)
    \/ WriteServerInit
    \/ PeekFail
    \/ SetPixelFormat(ProtoSetPixelFormatMsgs)
    \/ SetEncodings(ProtoSetEncodingsMsgs)
    \/ FramebufferUpdateRequest(ProtoRequestMsgs)
    \/ KeyEvent(ProtoKeyMsgs)
    \/ PointerEvent(ProtoPointerMsgs)
    \/ ClientCutText(ProtoCutTextMsgs)
    \/ UnrecognizedMessage(ProtoOtherTags)

Spec == Init /\ [][Next]_vars

----------------------------------------------------------------------------
(* The window specification: the same server with three windows and a      *)
(* client that completes the handshake and then presses, moves and         *)
(* releases the left and the right button at points less than a click      *)
(* distance apart, and asks for updates.                                   *)

UIPoints == {Pt(2, 2), Pt(6, 2), Pt(2, 6)}

UIPointerMsgs ==
    { PointerMsg(TRUE, mask, p.X, p.Y) : mask \in {0, 1, 4}, p \in UIPoints }

UIKeyMsgs == { KeyMsg(TRUE, 0, KeyW) }

UIRequestMsgs == { RequestMsg(TRUE, 0, 0, 0, 3, 2) }

UIDirs ==
    { Directory(TRUE, <<ImageFile(1, 16, 8), ImageFile(2, 8, 8), BadFile(3),
                        ImageFile(4, 16, 16)>>),
      Directory(TRUE, <<BadFile(1), BadFile(2)>>) }

NextUI ==
    \/ WriteProtocolVersion
    \/ ReadProtocolVersion({FormatVersion(3, 3)})
    \/ WriteAuthScheme
    \/ WriteAuthChallenge
    \/ ReadAuthResponse({ZeroBytes16})
    \/ WriteAuthResult
    \/ ReadClientInit({1})
    \/ CreateUI(UIDirs)
    \/ WriteServerInit
    \/ FramebufferUpdateRequest(UIRequestMsgs)
    \/ KeyEvent(UIKeyMsgs)
    \/ PointerEvent(UIPointerMsgs)

SpecUI == Init /\ [][NextUI]_vars

----------------------------------------------------------------------------
(* The crop specification: the same server with one window of 32x16 image  *)
(* pixels (16x8 on the screen) and a client that presses and releases two  *)
(* fold keys and the right button. From (2, 2) the point (9, 8) is less    *)
(* than 10 units away, (10, 8) exactly 10 and (20, 10) more; (20, 10) is   *)
(* outside the window wherever the window has got to.                      *)

CropPoints == {Pt(2, 2), Pt(9, 8), Pt(10, 8), Pt(20, 10)}

CropPointerMsgs ==
    { PointerMsg(TRUE, mask, p.X, p.Y) : mask \in {0, 4}, p \in CropPoints }

CropKeyMsgs == { KeyMsg(TRUE, 1, KeyA), KeyMsg(TRUE, 1, KeyS), KeyMsg(TRUE, 0, KeyA) }

CropDirs == { Directory(TRUE, <<ImageFile(1, 32, 16)>>) }

NextCrop ==
    \/ WriteProtocolVersion
    \/ ReadProtocolVersion({FormatVersion(3, 3)})
    \/ WriteAuthScheme
    \/ WriteAuthChallenge
    \/ ReadAuthResponse({ZeroBytes16})
    \/ WriteAuthResult
    \/ ReadClientInit({1})
    \/ CreateUI(CropDirs)
    \/ WriteServerInit
    \/ KeyEvent(CropKeyMsgs)
    \/ PointerEvent(CropPointerMsgs)

SpecCrop == Init /\ [][NextCrop]_vars

----------------------------------------------------------------------------
(* The selection specification: the one-window server with a client that   *)
(* uses both buttons at two points exactly 10 units apart, so that drags,  *)
(* clicks and swipes follow one another. The client selects inside the     *)
(* image only, which keeps the crops it can produce finite in number.      *)

SelectPoints == {Pt(2, 2), Pt(10, 8)}

SelectPointerMsgs ==
    { PointerMsg(TRUE, mask, p.X, p.Y) : mask \in {0, 1, 4}, p \in SelectPoints }

SelectKeyMsgs == { KeyMsg(TRUE, 0, KeyA) }

SelectInsideImage(ws) ==
    \A i \in 1..Len(ws) :
        /\ ws[i].img.Min.X <= ws[i].crop.Min.X /\ ws[i].crop.Max.X <= ws[i].img.Max.X
        /\ ws[i].img.Min.Y <= ws[i].crop.Min.Y /\ ws[i].crop.Max.Y <= ws[i].img.Max.Y

NextSelect ==
    \/ WriteProtocolVersion
    \/ ReadProtocolVersion({FormatVersion(3, 3)})
    \/ WriteAuthScheme
    \/ WriteAuthChallenge
    \/ ReadAuthResponse({ZeroBytes16})
    \/ WriteAuthResult
    \/ ReadClientInit({1})
    \/ CreateUI(CropDirs)
    \/ WriteServerInit
    \/ KeyEvent(SelectKeyMsgs)
    \/ PointerEvent(SelectPointerMsgs) /\ SelectInsideImage(windows')

SpecSelect == Init /\ [][NextSelect]_vars

----------------------------------------------------------------------------
(* The concurrent specification: main accepts two connections and serves   *)
(* each in a goroutine of its own (main.go 36-50). The variables of the    *)
(* module are those of the goroutine that runs; `other` holds those of the *)
(* goroutine that waits, and Switch is the scheduler handing over. The     *)
(* goroutine has no recover, so a panic in it ends the program and with it *)
(* every goroutine: after a panic there is no handing over. run_once is    *)
(* false, its default.                                                     *)

\* The variables of the running connection, as a record.
Saved ==
    [pc |-> pc, err |-> err, io |-> io, pixelFormat |-> pixelFormat,
     authResponse |-> authResponse, keyEvent |-> keyEvent, pointerEvent |-> pointerEvent,
     lastMsg |-> lastMsg, setFormat |-> setFormat, out |-> out, windows |-> windows,
     pendingCrop |-> pendingCrop, keyPressing |-> keyPressing,
     eventHandler |-> eventHandler]

\* A connection that was accepted and whose rfbServe has not run yet.
Accepted ==
    [pc |-> "WriteProtocolVersion", err |-> "", io |-> <<>>,
     pixelFormat |-> InitialPixelFormat, authResponse |-> ZeroBytes16,
     keyEvent |-> [Pressed |-> FALSE, KeySym |-> 0],
     pointerEvent |-> [ButtonMask |-> 0, X |-> 0, Y |-> 0],
     lastMsg |-> NoMsg, setFormat |-> NoFormat, out |-> <<>>, windows |-> <<>>,
     pendingCrop |-> ZR, keyPressing |-> FALSE, eventHandler |-> DefaultHandler]

\* The connections whose rfbServe has returned or panicked, or that do not exist.
Ended == {"None", "Error", "Panic"}

\* The scheduler runs the other goroutine, while the program is alive and
\* that goroutine has something left to do.
Switch ==
    /\ pc # "Panic"
    /\ other.pc \notin Ended
    /\ other' = Saved
    /\ pc' = other.pc
    /\ err' = other.err
    /\ io' = other.io
    /\ pixelFormat' = other.pixelFormat
    /\ authResponse' = other.authResponse
    /\ keyEvent' = other.keyEvent
    /\ pointerEvent' = other.pointerEvent
    /\ lastMsg' = other.lastMsg
    /\ setFormat' = other.setFormat
    /\ out' = other.out
    /\ windows' = other.windows
    /\ pendingCrop' = other.pendingCrop
    /\ keyPressing' = other.keyPressing
    /\ eventHandler' = other.eventHandler
    /\ UNCHANGED pixelVars

ConcFormatMsgs == { [tag |-> 0, complete |-> TRUE, PixelFormat |-> Format24bpp] }

ConcDirs == { Directory(TRUE, <<ImageFile(1, 16, 12)>>) }

InitConc ==
    /\ pc = Accepted.pc
    /\ err = Accepted.err
    /\ io = Accepted.io
    /\ pixelFormat = Accepted.pixelFormat
    /\ authResponse = Accepted.authResponse
    /\ keyEvent = Accepted.keyEvent
    /\ pointerEvent = Accepted.pointerEvent
    /\ lastMsg = Accepted.lastMsg
    /\ setFormat = Accepted.setFormat
    /\ out = Accepted.out
    /\ windows = Accepted.windows
    /\ pendingCrop = Accepted.pendingCrop
    /\ keyPressing = Accepted.keyPressing
    /\ eventHandler = Accepted.eventHandler
    /\ PixelIdle
    /\ other = Accepted

NextConc ==
    \/ WriteProtocolVersion
    \/ ReadProtocolVersion({FormatVersion(3, 3)})
    \/ WriteAuthScheme
    \/ WriteAuthChallenge
    \/ ReadAuthResponse({ZeroBytes16})
    \/ WriteAuthResult
    \/ ReadClientInit({1})
    \/ CreateUI(ConcDirs)
    \/ WriteServerInit
    \/ PeekFail
    \/ SetPixelFormat(ConcFormatMsgs)
    \/ FramebufferUpdateRequest(UIRequestMsgs)
    \/ Switch

SpecConc == InitConc /\ [][NextConc]_vars

----------------------------------------------------------------------------
(* The pixel specification: rfb/image.go on a 2x1 image. Init draws the    *)
(* format and the sample; the actions are the calls of the package in the  *)
(* order a caller makes them: NewPixelFormatImage, then Set and            *)
(* At().RGBA(), or CopyFromRGBA and CopyToRGBA.                            *)

\* The family of formats has red channels of 1..MaxChanBits bits.
MaxChanBits == 8

PixelFormatOf(bpp, depth, be, rgbMax, rgbShift) ==
    PixelFormatRead(WireFormat(bpp, depth, IF be THEN 1 ELSE 0, 1, rgbMax, rgbShift))

\* A format of bpp bits with a red field of n bits above a green and a blue
\* field that share what is left (at most n + 1 and 15 bits), blue lowest.
FieldFormat(bpp, n, be) ==
    LET gw == Min(n + 1, (bpp - n) \div 2)
        bw == Min(15, bpp - n - gw)
    IN  PixelFormatOf(bpp, n + gw + bw, be,
                      <<2 ^ n - 1, 2 ^ gw - 1, 2 ^ bw - 1>>, <<gw + bw, bw, 0>>)

FieldFormats ==
    UNION { { FieldFormat(bpp, n, be) : n \in 1..Min(MaxChanBits, bpp - 2), be \in BOOLEAN } :
              bpp \in {8, 16, 32} }

\* pixelFormat and pixelFormatWeird of image_test.go, RGB565 in both byte
\* orders, a 10-bit and a 15-bit format, and a format of 24 bits per pixel.
PixelFormats ==
    FieldFormats
    \cup { InitialPixelFormat, PixelFormatRead(FormatWeird), PixelFormatRead(Format565),
           PixelFormatOf(16, 16, TRUE, <<31, 63, 31>>, <<11, 5, 0>>),
           PixelFormatOf(32, 30, FALSE, <<1023, 1023, 1023>>, <<20, 10, 0>>),
           PixelFormatOf(32, 31, TRUE, <<32767, 255, 127>>, <<17, 8, 1>>),
           PixelFormatRead(Format24bpp) }

\* 16-bit channel values, in a cycle.
Samples16 == <<0, 1, 255, 256, 32767, 32768, 43981, 48350, 52719, 65535, 43690, 21845>>

Colour(r, g, b, a) == [R |-> r, G |-> g, B |-> b, A |-> a]

Cycle(i, k) == ((i + k - 1) % Len(Samples16)) + 1

\* Colours for Set: every sample in every channel, three alphas, the pixel
\* written at x = 0 or x = 1 and the other pixel black or white before.
ColourInputs ==
    { [kind |-> "colour", x |-> x,
       c |-> Colour(Samples16[i], Samples16[Cycle(i, 1)], Samples16[Cycle(i, 2)], a),
       other |-> Colour(o, o, o, o)] :
        i \in 1..Len(Samples16), a \in {0, 255, MaxUint16}, x \in {0, 1},
        o \in {0, MaxUint16} }

\* Pixels of an image.RGBA for CopyFromRGBA: every byte value in every channel.
RGBAInputs ==
    { [kind |-> "rgba", x |-> 0,
       c |-> Colour(v, MaxUint8 - v, (7 * v) % (MaxUint8 + 1), a),
       other |-> Colour(MaxUint8 - v, v, v, MaxUint8)] :
        v \in 0..MaxUint8, a \in {MaxUint8} }
    \cup { [kind |-> "rgba", x |-> 0, c |-> Colour(v, v, v, 0),
            other |-> Colour(0, 0, 0, 0)] : v \in {0, 128} }

PixelBounds == Rect(0, 0, 2, 1)

\* The PixelFormatImage of the pixel specification.
img == [NewPixelFormatImage(pfmt, PixelBounds) EXCEPT !.Pix = pix]

\* The image.RGBA that CopyFromRGBA reads: pin.c at (0, 0), pin.other at (1, 0).
SourceRGBA ==
    [Rect |-> PixelBounds,
     Pix |-> <<pin.c.R, pin.c.G, pin.c.B, pin.c.A,
               pin.other.R, pin.other.G, pin.other.B, pin.other.A>>]

InitPixel ==
    /\ pc = "WriteProtocolVersion"
    /\ err = ""
    /\ io = <<>>
    /\ pixelFormat = InitialPixelFormat
    /\ authResponse = ZeroBytes16
    /\ keyEvent = [Pressed |-> FALSE, KeySym |-> 0]
    /\ pointerEvent = [ButtonMask |-> 0, X |-> 0, Y |-> 0]
    /\ lastMsg = NoMsg
    /\ setFormat = NoFormat
    /\ out = <<>>
    /\ windows = <<>>
    /\ pendingCrop = ZR
    /\ keyPressing = FALSE
    /\ eventHandler = DefaultHandler
    /\ pfmt \in PixelFormats
    /\ pin \in ColourInputs \cup RGBAInputs
    /\ pix = <<>>
    /\ pout = <<>>
    /\ pstage = "idle"
    /\ other = NoConnection

\* img, err := NewPixelFormatImage(pfmt, image.Rect(0, 0, 2, 1))
PixelNew ==
    /\ pstage = "idle"
    /\ LET r == NewPixelFormatImage(pfmt, PixelBounds)
       IN  IF r.err # ""
           THEN pstage' = "rejected" /\ UNCHANGED pix
           ELSE pstage' = "new" /\ pix' = r.Pix
    /\ UNCHANGED <<sessionVars, uiVars, other, pin, pfmt, pout>>

\* img.Set(1 - x, 0, other): the other pixel of the image is written first.
PixelSetOther ==
    /\ pstage = "new"
    /\ pin.kind = "colour"
    /\ pix' = Set(img, 1 - pin.x, 0, pin.other).Pix
    /\ pstage' = "prepared"
    /\ UNCHANGED <<sessionVars, uiVars, other, pin, pfmt, pout>>

\* img.Set(x, 0, c)
PixelSet ==
    /\ pstage \in {"new", "prepared"}
    /\ pin.kind = "colour"
    /\ pix' = Set(img, pin.x, 0, pin.c).Pix
    /\ pstage' = "set"
    /\ UNCHANGED <<sessionVars, uiVars, other, pin, pfmt, pout>>

\* r, g, b, a := img.At(x, 0).RGBA()
PixelAt ==
    /\ pstage = "set"
    /\ pout' = RGBA(At(img, pin.x, 0))
    /\ pstage' = IF pout'.panic THEN "panic" ELSE "read"
    /\ UNCHANGED <<sessionVars, uiVars, other, pin, pfmt, pix>>

\* img.CopyFromRGBA(src)
PixelCopyFrom ==
    /\ pstage = "new"
    /\ pin.kind = "rgba"
    /\ LET r == CopyFromRGBA(img, SourceRGBA)
       IN  /\ r.err = ""
           /\ pix' = r.img.Pix
    /\ pstage' = "copied"
    /\ UNCHANGED <<sessionVars, uiVars, other, pin, pfmt, pout>>

\* img.CopyToRGBA(dst) into a new image.RGBA of the same bounds.
PixelCopyTo ==
    /\ pstage = "copied"
    /\ LET r == CopyToRGBA(img, [Rect |-> PixelBounds, Pix |-> [i \in 1..8 |-> 0]])
       IN  /\ r.err = ""
           /\ pout' = r.Pix
           /\ pstage' = IF r.panic THEN "panic" ELSE "copiedBack"
    /\ UNCHANGED <<sessionVars, uiVars, other, pin, pfmt, pix>>

NextPixel ==
    \/ PixelNew
    \/ PixelSetOther
    \/ PixelSet
    \/ PixelAt
    \/ PixelCopyFrom
    \/ PixelCopyTo

SpecPixel == InitPixel /\ [][NextPixel]_vars

----------------------------------------------------------------------------
(* The pixel specification again, on the formats at the edges of what a    *)
(* client can send: a channel maximum of 0, shifts of 32 and more, fields  *)
(* that overlap, and widths other than 8, 16 and 32 bits.                  *)

EdgeFormats ==
    { PixelFormatOf(32, 24, TRUE, <<0, 255, 255>>, <<16, 8, 0>>),
      PixelFormatOf(16, 16, FALSE, <<31, 63, 0>>, <<11, 5, 0>>),
      PixelFormatOf(8, 8, FALSE, <<0, 0, 0>>, <<0, 0, 0>>),
      PixelFormatOf(32, 24, TRUE, <<255, 255, 255>>, <<255, 40, 32>>),
      PixelFormatOf(16, 16, TRUE, <<32767, 32767, 32767>>, <<0, 0, 0>>),
      PixelFormatOf(32, 24, FALSE, <<255, 255, 255>>, <<16, 8, 0>>) }
    \cup { PixelFormatOf(bpp, 24, TRUE, <<255, 255, 255>>, <<16, 8, 0>>) :
              bpp \in {0, 1, 15, 24, 64, 255} }

InitPixelEdge ==
    /\ pc = "WriteProtocolVersion"
    /\ err = ""
    /\ io = <<>>
    /\ pixelFormat = InitialPixelFormat
    /\ authResponse = ZeroBytes16
    /\ keyEvent = [Pressed |-> FALSE, KeySym |-> 0]
    /\ pointerEvent = [ButtonMask |-> 0, X |-> 0, Y |-> 0]
    /\ lastMsg = NoMsg
    /\ setFormat = NoFormat
    /\ out = <<>>
    /\ windows = <<>>
    /\ pendingCrop = ZR
    /\ keyPressing = FALSE
    /\ eventHandler = DefaultHandler
    /\ pfmt \in EdgeFormats
    /\ pin \in ColourInputs \cup RGBAInputs
    /\ pix = <<>>
    /\ pout = <<>>
    /\ pstage = "idle"
    /\ other = NoConnection

SpecPixelEdge == InitPixelEdge /\ [][NextPixel]_vars

----------------------------------------------------------------------------
(* Properties of the connection (Spec).                                    *)

\* The handshake messages in the order of the statements of rfbServe.
HandshakeOrder ==
    << <<"write", "ProtocolVersion">>, <<"read", "ProtocolVersion">>,
       <<"write", "AuthenticationScheme">>, <<"write", "VNCAuthenticationChallenge">>,
       <<"read", "VNCAuthenticationResponse">>, <<"write", "VNCAuthenticationResult">>,
       <<"read", "ClientInitialisation">>, <<"write", "ServerInitialisation">> >>

\* What has been exchanged so far: direction and message, without the values.
Exchanged == [i \in 1..Len(io) |-> <<io[i].op, io[i].msg>>]

\* The number of handshake messages exchanged when rfbServe is at a position.
DoneBefore(step) ==
    CASE step = "WriteProtocolVersion" -> 0
      [] step = "ReadProtocolVersion" -> 1
      [] step = "WriteAuthScheme" -> 2
      [] step = "WriteAuthChallenge" -> 3
      [] step = "ReadAuthResponse" -> 4
      [] step = "WriteAuthResult" -> 5
      [] step = "ReadClientInit" -> 6
      [] step = "CreateUI" -> 7
      [] step = "WriteServerInit" -> 7
      [] step = "Loop" -> 8
      [] step = "Panic" -> 8

\* Once rfbServe has returned an error, it takes no further step.
NoStepAfterError == [][pc # "Error"]_vars

\* C1: the handshake messages are exchanged in the one fixed order (write
\* ProtocolVersion 3.3, read ProtocolVersion, write scheme 2, write the 16-byte
\* challenge, read the 16-byte response, write the result, read
\* ClientInitialisation, write ServerInitialisation); rfbServe is in the loop,
\* and has read a loop message, only when all eight have been exchanged; a
\* step that fails exchanges nothing more and is the last step.
C1_HandshakeOrder ==
    /\ [](/\ Len(io) <= Len(HandshakeOrder)
          /\ Exchanged = SubSeq(HandshakeOrder, 1, Len(io))
          /\ pc # "Error" => Len(io) = DoneBefore(pc)
          /\ Len(io) >= 1 => io[1].val = <<"R", "F", "B", " ", "0", "0", "3", ".",
                                           "0", "0", "3", "\n">>
          /\ Len(io) >= 3 => io[3].val = 2
          /\ Len(io) >= 4 => Len(io[4].val) = 16
          /\ Len(io) >= 5 => Len(io[5].val) = 16
          /\ lastMsg # NoMsg => Len(io) = Len(HandshakeOrder)
          /\ pc = "Loop" => Len(io) = Len(HandshakeOrder))
    /\ [][pc' = "Error" /\ lastMsg' = NoMsg
            => /\ Len(io') <= Len(io) + 1
               /\ Len(io') = Len(io) + 1 => err' = "only version 3.3 is supported"]_vars
    /\ NoStepAfterError

\* C1 witness: the loop was entered after the eight messages and a loop
\* message has been read.
C1_LoopEntered ==
    /\ pc = "Loop"
    /\ Len(io) = 8
    /\ lastMsg # NoMsg
    /\ windows # <<>>

\* C2: when the client's ProtocolVersion parses to a version other than 3.3,
\* rfbServe has returned the version error, the server's own ProtocolVersion
\* and the client's reply are the only messages exchanged, no loop message is
\* read and no step follows.
C2_VersionMismatchEnds ==
    /\ [](Len(io) >= 2
            => LET r == ProtocolVersionRead(io[2].val)
               IN  /\ r.err = ""
                   /\ (r.Major # 3 \/ r.Minor # 3)
                        => /\ pc = "Error"
                           /\ err = "only version 3.3 is supported"
                           /\ Len(io) = 2
                           /\ lastMsg = NoMsg
                           /\ windows = <<>>
                   /\ err = "only version 3.3 is supported"
                        => (r.Major # 3 \/ r.Minor # 3))
    /\ NoStepAfterError

\* C2 witness: the client answered "RFB 003.008\n" and rfbServe returned.
C2_Version38Refused ==
    /\ pc = "Error"
    /\ err = "only version 3.3 is supported"
    /\ Len(io) = 2
    /\ io[2].val = <<"R", "F", "B", " ", "0", "0", "3", ".", "0", "0", "8", "\n">>

\* C3: whatever 16 bytes the client sends as its response, the step that
\* reads them goes on to the result, the result written is OK (0), and only a
\* failure of that write can end the handshake there.
C3_AnyResponseAccepted ==
    /\ [](/\ Len(io) >= 6 => io[6].val = 0
          /\ Len(io) >= 5 => authResponse = io[5].val /\ Len(authResponse) = 16
          /\ err = "read VNC auth response" => Len(io) = 4)
    /\ [][pc = "ReadAuthResponse" /\ Len(io') = 5 => pc' = "WriteAuthResult"]_vars
    /\ [][pc = "WriteAuthResult"
            => \/ pc' = "ReadClientInit" /\ Len(io') = 6 /\ io'[6].val = 0
               \/ pc' = "Error" /\ err' = "write VNC auth result" /\ io' = io]_vars

\* C3 witness: a client whose response was sixteen bytes 255 is served an
\* update in the loop.
C3_NonZeroResponseServed ==
    /\ pc = "Loop"
    /\ authResponse = [i \in 1..16 |-> 255]
    /\ out # <<>>

\* The number of pixel bytes of a w x h rectangle in the format pf.
PixelDataLen(pf, w, h) == (pf.BitsPerPixel \div 8) * w * h

\* C4 (the claim as stated): a FramebufferUpdateRequest that was read is
\* answered, before anything else is read, by one FramebufferUpdate of one
\* rectangle with the request's X, Y, Width and Height, encoding 0 and
\* bytesPerPixel * Width * Height bytes, unless the read or the write failed;
\* no other message makes the server write.
C4_EveryRequestAnswered ==
    /\ lastMsg.tag = 3 /\ pc # "Error"
         => /\ Len(out) = 1
            /\ out[1].type = 0
            /\ out[1].count = 1
            /\ Len(out[1].rects) = 1
            /\ out[1].rects[1].X = lastMsg.X
            /\ out[1].rects[1].Y = lastMsg.Y
            /\ out[1].rects[1].Width = lastMsg.Width
            /\ out[1].rects[1].Height = lastMsg.Height
            /\ out[1].rects[1].EncodingType = 0
            /\ out[1].rects[1].nbytes
                 = PixelDataLen(pixelFormat, lastMsg.Width, lastMsg.Height)
    /\ lastMsg.tag # 3 => out = <<>>

\* The format rfbServe holds according to the messages read so far.
ActiveFormat == IF setFormat = NoFormat THEN InitialPixelFormat ELSE setFormat

\* C5: rfbServe's format is the one of the last SetPixelFormat decoded, or the
\* initial one (32 bpp, big-endian, maxima 255, shifts 24/16/8, the format
\* the ServerInitialisation announced) when there was none, and an update
\* that is sent is packed in exactly that format.
C5_UpdateUsesCurrentFormat ==
    /\ pixelFormat = ActiveFormat
    /\ out # <<>>
         => /\ out[1].rects[1].format = ActiveFormat
            /\ out[1].rects[1].nbytes
                 = PixelDataLen(ActiveFormat, out[1].rects[1].Width, out[1].rects[1].Height)
    /\ Len(io) = 8
         => io[8].val.PixelFormat
              = [BitsPerPixel |-> 32, BitDepth |-> 24, BigEndianFlag |-> 1,
                 TrueColorFlag |-> 1, RedMax |-> 255, GreenMax |-> 255, BlueMax |-> 255,
                 RedShift |-> 24, GreenShift |-> 16, BlueShift |-> 8]
    /\ setFormat = NoFormat /\ out # <<>>
         => out[1].rects[1].format = PixelFormatRead(io[8].val.PixelFormat)

\* C5 witness: an update packed in RGB565 right after the SetPixelFormat that
\* asked for it.
C5_UpdateIn565 ==
    /\ out # <<>>
    /\ setFormat = PixelFormatRead(Format565)
    /\ out[1].rects[1].format.BitsPerPixel = 16
    /\ out[1].rects[1].nbytes = 12

\* A format the package cannot pack: a width other than 8, 16 or 32 bits, a
\* maximum beyond 16 bits, or a palette format.
Unsupported(pf) ==
    \/ pf.BitsPerPixel \notin {8, 16, 32}
    \/ pf.RedMax > MaxUint16 \/ pf.GreenMax > MaxUint16 \/ pf.BlueMax > MaxUint16
    \/ ~pf.TrueColor

\* C6 (the claim as stated): an unsupported format ends the connection with an
\* error when its SetPixelFormat is read, and serving a request never finds
\* the format unusable.
C6_RejectedWhenSet ==
    /\ setFormat # NoFormat /\ Unsupported(setFormat)
         => pc = "Error" /\ lastMsg.tag = 0
    /\ pc # "Panic"

\* The errors rfbServe returns for a message it cannot read or does not know.
ReadErrors ==
    {"read message type", "read SetPixelFormat", "read SetEncodings",
     "read FramebufferUpdateRequest", "read KeyEvent", "read PointerEvent",
     "read ClientCutText", "received unrecognized message type"}

\* Every decoder refuses a first byte other than its own and a message that
\* ends early.
DecodersCheckType ==
    \A t \in 0..7 :
        /\ t # 0 => SetPixelFormatRead([tag |-> t, complete |-> TRUE,
                                        PixelFormat |-> Format565]).err # ""
        /\ t # 2 => SetEncodingsRead([tag |-> t, headerComplete |-> TRUE,
                                      complete |-> TRUE, count |-> 1]).err # ""
        /\ t # 3 => FramebufferUpdateRequestRead(
                        [RequestMsg(TRUE, 0, 0, 0, 1, 1) EXCEPT !.tag = t]).err # ""
        /\ t # 4 => KeyEventRead(keyEvent, [KeyMsg(TRUE, 1, KeyW) EXCEPT !.tag = t])
                        = [err |-> "type", msg |-> keyEvent]
        /\ t # 5 => PointerEventRead(pointerEvent,
                                     [PointerMsg(TRUE, 1, 2, 2) EXCEPT !.tag = t])
                        = [err |-> "type", msg |-> pointerEvent]
        /\ t # 6 => ClientCutTextRead([tag |-> t, headerComplete |-> TRUE,
                                       complete |-> TRUE, length |-> 1]).err # ""

\* C7: a first byte other than 0, 2, 3, 4, 5, 6, a message that cannot be
\* read to its end and a decoder that finds another type byte make rfbServe
\* return an error; the step that does so writes nothing and leaves the pixel
\* format and the UI as they were, and no step follows it.
C7_BadMessageEndsConnection ==
    /\ [](/\ lastMsg # NoMsg /\ lastMsg.tag \notin {0, 2, 3, 4, 5, 6}
               => pc = "Error" /\ err = "received unrecognized message type"
          /\ err \in ReadErrors => pc = "Error" /\ out = <<>>
          /\ DecodersCheckType)
    /\ [][err' \in ReadErrors
            => /\ pixelFormat' = pixelFormat
               /\ setFormat' = setFormat
               /\ windows' = windows
               /\ pendingCrop' = pendingCrop
               /\ keyPressing' = keyPressing
               /\ eventHandler' = eventHandler
               /\ io' = io]_vars
    /\ NoStepAfterError

\* C7 witness: a FixColourMapEntries byte ended a connection that had set a
\* format and was dragging a window.
C7_Type1Refused ==
    /\ pc = "Error"
    /\ err = "received unrecognized message type"
    /\ lastMsg.tag = 1
    /\ setFormat # NoFormat
    /\ eventHandler.mode = "drag"

----------------------------------------------------------------------------
(* Properties of the pixel codec (SpecPixel).                              *)

\* The step between two neighbouring values of a channel of maximum max on
\* the 8-bit scale, rounded up; 1 for a channel of 8 bits or more.
RoundingUnit(max) ==
    IF max >= MaxUint8 THEN 1 ELSE (MaxUint8 + max - 1) \div max

WithinUnit(sample, back, max) ==
    /\ back <= sample
    /\ sample - back <= RoundingUnit(max)

\* C8: for every format the package accepts, with fields that do not overlap,
\* in either byte order, CopyFromRGBA followed by CopyToRGBA gives back, in
\* each of red, green and blue of each pixel, a value that is not above the
\* sample and at most one rounding unit of that channel below it.
C8_RoundTripWithinUnit ==
    pstage = "copiedBack"
      => /\ Len(pout) = 8
         /\ WithinUnit(pin.c.R, pout[1], pfmt.RedMax)
         /\ WithinUnit(pin.c.G, pout[2], pfmt.GreenMax)
         /\ WithinUnit(pin.c.B, pout[3], pfmt.BlueMax)
         /\ WithinUnit(pin.other.R, pout[5], pfmt.RedMax)
         /\ WithinUnit(pin.other.G, pout[6], pfmt.GreenMax)
         /\ WithinUnit(pin.other.B, pout[7], pfmt.BlueMax)

\* C8 witness: in RGB565 the sample (100, 155, 188) comes back as (98, 153, 180).
C8_LossyIn565 ==
    /\ pstage = "copiedBack"
    /\ pfmt = PixelFormatRead(Format565)
    /\ pin.c = Colour(100, 155, 188, 255)
    /\ <<pout[1], pout[2], pout[3]>> = <<98, 153, 180>>

\* floor(floor(v * max / 0xffff) * 0xffff / max)
Quantised(v, max) == (((v * max) \div 65535) * 65535) \div max

\* C9: Set(x, 0, c) followed by At(x, 0).RGBA() gives, for red, green and
\* blue, floor(floor(v * max / 0xffff) * 0xffff / max) of the value and the
\* maximum of the channel, and alpha 0xffff, whatever the alpha of c, the
\* byte order of the format and the other pixel of the image.
C9_SetThenAt ==
    pstage = "read"
      => /\ ~pout.panic
         /\ pout.R = Quantised(pin.c.R, pfmt.RedMax)
         /\ pout.G = Quantised(pin.c.G, pfmt.GreenMax)
         /\ pout.B = Quantised(pin.c.B, pfmt.BlueMax)
         /\ pout.A = 65535

\* C9 witness: pixelFormatWeird of the tests, the other pixel white:
\* (0xffff, 0xaaaa, 0x5555) is read back unchanged.
C9_WeirdFormatExact ==
    /\ pstage = "read"
    /\ pfmt = PixelFormatRead(FormatWeird)
    /\ pin.c = Colour(65535, 43690, 21845, 255)
    /\ pin.other.R = 65535
    /\ pin.x = 1
    /\ pout = [panic |-> FALSE, R |-> 65535, G |-> 43690, B |-> 21845, A |-> 65535]

----------------------------------------------------------------------------
(* Properties of the windows (SpecUI).                                     *)

\* The images of a sequence of windows, by the position of each in the listing.
Ids(ws) == [i \in 1..Len(ws) |-> ws[i].id]

\* The sequence s without its i-th element.
Without(s, i) == SubSeq(s, 1, i - 1) \o SubSeq(s, i + 1, Len(s))

\* C10: for the windows of every reachable state and every index i,
\* moveToFront(i) puts the window of index i last and leaves the others in
\* their order, so the result is a permutation; the windows are the same set
\* in every state after NewUI, and the order changes only by a moveToFront.
C10_MoveToFrontPermutes ==
    /\ [](\A i \in 1..Len(windows) :
            LET after == moveToFront(windows, i)
            IN  /\ Len(after) = Len(windows)
                /\ after[Len(windows)] = windows[i]
                /\ SubSeq(after, 1, Len(windows) - 1) = Without(windows, i))
    /\ [](windows # <<>>
            => /\ Len(windows) = 3
               /\ { windows[i].id : i \in 1..Len(windows) } = {1, 2, 4})
    /\ [][windows # <<>> /\ Ids(windows') # Ids(windows)
            => \E i \in 1..Len(windows) : Ids(windows') = Ids(moveToFront(windows, i))]_vars

\* C10 witness: the window that was first is last and the two others have
\* moved down in their order.
C10_FirstMovedToFront ==
    /\ Ids(windows) = <<2, 4, 1>>
    /\ eventHandler.mode = "drag"

----------------------------------------------------------------------------
(* Properties of the folds (SpecCrop).                                     *)

\* The pointer events of a client that holds the right button, and no button.
RightHeld(p) == [ButtonMask |-> 4, X |-> p.X, Y |-> p.Y]
NoButton(p) == [ButtonMask |-> 0, X |-> p.X, Y |-> p.Y]

\* The window the crop-selecting handler of u is bound to.
BoundWindow(u) == u.windows[IndexOf(u.windows, u.eventHandler.win)]

Dist2(a, b) == (b.X - a.X) * (b.X - a.X) + (b.Y - a.Y) * (b.Y - a.Y)

\* C12: a right-button click (release less than 10 units from the press) on
\* a window whose crop is not its image bounds sets crop to the image bounds
\* and lastCrop to the crop it had; on a window whose crop is its image
\* bounds it sets crop to lastCrop. A release 10 units or more from the press
\* is never a click: lastCrop stays and crop becomes the swiped region.
C12_ClickTogglesFolds ==
    [][(eventHandler.mode = "crop" /\ eventHandler'.mode = "default")
          => LET i == IndexOf(windows, eventHandler.win)
                 win == windows[i]
                 after == windows'[i]
                 loc == Pt(eventHandler.x, eventHandler.y)
                 loc2 == Pt(pointerEvent'.X, pointerEvent'.Y)
             IN  /\ after.id = win.id
                 /\ (Dist2(loc, loc2) < 100 /\ win.crop # win.img)
                       => after.crop = win.img /\ after.lastCrop = win.crop
                 /\ (Dist2(loc, loc2) < 100 /\ win.crop = win.img)
                       => after.crop = win.lastCrop
                 /\ Dist2(loc, loc2) >= 100
                       => /\ after.lastCrop = win.lastCrop
                          /\ after.crop = Canon(Rectangle(ScreenToWindow(win, loc),
                                                          ScreenToWindow(win, loc2)))]_vars

\* C12 witness: the window was swiped from (2, 2) to (10, 8), exactly 10
\* units, which made the swiped region its crop, and then clicked, which
\* unfolded it and kept the swiped region as lastCrop.
C12_SwipedThenClicked ==
    /\ eventHandler.mode = "default"
    /\ lastMsg.tag = 5
    /\ pointerEvent.ButtonMask = 0
    /\ Len(windows) = 1
    /\ windows[1].crop = windows[1].img
    /\ windows[1].lastCrop = Rect(4, 4, 20, 16)

\* The points the conversions are tried on: a diagonal through the desktop
\* (each coordinate is converted on its own, by the same arithmetic).
MaxCoord == 12
RoundTripPoints == { Pt(a, a) : a \in -MaxCoord..MaxCoord }

\* A window of scale 2.0 with crop.Min = (10, 10) at (100, 100), and the
\* points around its corner in both coordinate systems.
ZoomedWindow ==
    [id |-> 0, img |-> Rect(0, 0, 64, 64), crop |-> Rect(10, 10, 64, 64),
     lastCrop |-> Rect(0, 0, 64, 64), scale |-> [n |-> 2, d |-> 1], pos |-> Pt(100, 100),
     moving |-> FALSE]
ZoomedPoints ==
    { Pt(a, b) : a \in {10, 100}, b \in {10, 100} }
    \cup { Pt(100 + a, 100 - a) : a \in -MaxCoord..MaxCoord }
    \cup { Pt(10 + a, 10 + a) : a \in -MaxCoord..MaxCoord }

Abs(n) == IF n < 0 THEN -n ELSE n
Near(p, q) == Abs(p.X - q.X) <= 1 /\ Abs(p.Y - q.Y) <= 1

RoundTrips(win, p) ==
    /\ Near(WindowToScreen(win, ScreenToWindow(win, p)), p)
    /\ Near(ScreenToWindow(win, WindowToScreen(win, p)), p)

\* C13: for the window of every reachable state (scale 0.5) and every point,
\* WindowToScreen(ScreenToWindow(p)) and ScreenToWindow(WindowToScreen(p))
\* are within 1 of p in each coordinate; the same for the window of scale 2.0
\* with crop.Min = (10, 10) at (100, 100), which is no state of the server
\* and is tried once, in the initial state.
C13_ConversionsInverse ==
    /\ \A i \in 1..Len(windows) : \A p \in RoundTripPoints : RoundTrips(windows[i], p)
    /\ pc = "WriteProtocolVersion" => \A p \in ZoomedPoints : RoundTrips(ZoomedWindow, p)

\* C13 witness: a window folded to crop.Min = (4, 4) and standing at (2, 2),
\* where the screen point (7, 7) comes back exactly and the window point
\* (7, 7) comes back as (6, 6).
C13_FoldedWindowRounds ==
    /\ Len(windows) = 1
    /\ windows[1].crop.Min = Pt(4, 4)
    /\ windows[1].pos = Pt(2, 2)
    /\ WindowToScreen(windows[1], ScreenToWindow(windows[1], Pt(7, 7))) = Pt(7, 7)
    /\ ScreenToWindow(windows[1], WindowToScreen(windows[1], Pt(7, 7))) = Pt(6, 6)

\* Rectangle.In: r is empty or lies within s.
Within(r, s) ==
    \/ Dx(r) <= 0 \/ Dy(r) <= 0
    \/ /\ s.Min.X <= r.Min.X /\ r.Max.X <= s.Max.X
       /\ s.Min.Y <= r.Min.Y /\ r.Max.Y <= s.Max.Y

\* C14: in every reachable state the crop of every window is contained in
\* the bounds of its image, whatever folds, click-toggles and swipes came
\* before and wherever the swipes were released.
C14_CropWithinImage ==
    \A i \in 1..Len(windows) : Within(windows[i].crop, windows[i].img)

----------------------------------------------------------------------------
(* Properties of NewUI, hit testing and the modes (SpecUI).                *)

\* The files of a listing that decode, in the order of the listing.
Decodable(files) == SelectSeq(files, LAMBDA f : f.decodes)

\* The pointer and key events a client of SpecUI can have sent.
UIPointerEvents ==
    { [ButtonMask |-> mask, X |-> p.X, Y |-> p.Y] : mask \in {0, 1, 4}, p \in UIPoints }
UIKeyEvents ==
    { [Pressed |-> down, KeySym |-> k] : down \in BOOLEAN, k \in {KeyW, KeyA, KeyS, KeyD} }

\* C15: NewUI succeeds on every directory it can list; it makes one window
\* per file that decodes, in listing order, with crop = lastCrop = the image
\* bounds, scale 0.5, position (0, 0) and not moving, and skips the others;
\* when no file decodes the UI has no windows and every event leaves it as
\* it is.
C15_NewUISkipsBadFiles ==
    /\ [][pc = "CreateUI"
            => /\ pc' = "WriteServerInit"
               /\ \E dir \in UIDirs :
                     LET good == Decodable(dir.files)
                     IN  windows' =
                            [i \in 1..Len(good) |->
                               [id |-> good[i].id, img |-> good[i].bounds,
                                crop |-> good[i].bounds, lastCrop |-> good[i].bounds,
                                scale |-> [n |-> 1, d |-> 2], pos |-> Pt(0, 0),
                                moving |-> FALSE]]
               /\ eventHandler' = DefaultHandler]_vars
    /\ []((pc = "Loop" /\ windows = <<>>)
            => \A ke \in UIKeyEvents, pe \in UIPointerEvents : Update(ui, ke, pe) = ui)
    /\ [][(pc = "Loop" /\ windows = <<>>) => UNCHANGED uiVars]_vars

\* C15 witness: a directory of two files, neither of which decodes, gave a UI
\* without windows, and the client has pressed the left button on it.
C15_NoWindowsButtonPressed ==
    /\ pc = "Loop"
    /\ windows = <<>>
    /\ lastMsg.tag = 5
    /\ pointerEvent.ButtonMask = 1
    /\ eventHandler = DefaultHandler

\* The points the hit test is tried on, besides those of the pointer events:
\* the edges of the windows lie on multiples of 4, so these are points on the
\* near and the far edges, where the points of the pointer events are inside.
HitCoords == {0, 4}
HitPoints == { Pt(x, y) : x \in HitCoords, y \in HitCoords }

\* The indexes of the windows whose on-screen rectangle contains p.
Containing(ws, p) == { i \in 1..Len(ws) : In(p, ScreenRect(ws[i])) }

\* C18: for the windows of every reachable state and every point p, the
\* target of the hit test is the greatest index among the windows whose
\* on-screen rectangle contains p, and none (0 here, -1 in the code) when
\* no window contains p.
C18_HitTestTopmost ==
    \A p \in HitPoints \cup UIPoints :
        LET target == TargetWin(windows, p)
            hits == Containing(windows, p)
        IN  IF hits = {} THEN target = 0
            ELSE target \in hits /\ \A j \in hits : j <= target

\* C18 witness: the left button went down at (2, 2), which the first and
\* the last window both contain; the last one was the target and is being
\* dragged; (12, 12) is in no window.
C18_PressOnOverlap ==
    /\ eventHandler.mode = "drag"
    /\ lastMsg.tag = 5
    /\ pointerEvent = [ButtonMask |-> 1, X |-> 2, Y |-> 2]
    /\ Len(windows) = 3
    /\ {1, 3} \subseteq Containing(windows, Pt(2, 2))
    /\ TargetWin(windows, Pt(2, 2)) = 3
    /\ eventHandler.win = windows[3].id
    /\ TargetWin(windows, Pt(12, 12)) = 0

\* The greatest index of the windows containing p, 0 when there is none.
Topmost(ws, p) ==
    LET hits == Containing(ws, p)
    IN  IF hits = {} THEN 0 ELSE CHOOSE i \in hits : \A j \in hits : j <= i

\* The order of the windows after the window of index t went to the tail.
TailOrder(ws, t) == Without(Ids(ws), t) \o <<ws[t].id>>

\* C19: in default mode a left-button press over a window moves that window
\* to the tail of the window order and binds dragging mode to it; a
\* right-button press with the left button up does the same with
\* crop-selecting mode; while no window is under the pointer nothing
\* changes. So in dragging and in crop-selecting mode the bound window is the
\* last of the window order.
C19_PressBindsTopWindow ==
    /\ [][(pc = "Loop" /\ eventHandler.mode = "default")
            => LET loc == Pt(pointerEvent'.X, pointerEvent'.Y)
                   mask == pointerEvent'.ButtonMask
                   t == Topmost(windows, loc)
                   left == mask % 2 = 1
                   right == (mask \div 4) % 2 = 1
               IN  IF t = 0 THEN UNCHANGED uiVars
                   ELSE IF left
                   THEN /\ eventHandler' = [mode |-> "drag", win |-> windows[t].id,
                                            x |-> loc.X, y |-> loc.Y]
                        /\ Ids(windows') = TailOrder(windows, t)
                   ELSE IF right
                   THEN /\ eventHandler' = [mode |-> "crop", win |-> windows[t].id,
                                            x |-> loc.X, y |-> loc.Y]
                        /\ Ids(windows') = TailOrder(windows, t)
                   ELSE eventHandler' = eventHandler /\ Ids(windows') = Ids(windows)]_vars
    /\ [](eventHandler.mode \in {"drag", "crop"}
            => windows[Len(windows)].id = eventHandler.win)

\* C19 witness: the right button went down over the window that was first in
\* the window order; it is now last and crop-selecting mode is bound to it.
C19_CropModeOnRaisedWindow ==
    /\ eventHandler.mode = "crop"
    /\ pointerEvent.ButtonMask = 4
    /\ lastMsg.tag = 5
    /\ Ids(windows) = <<2, 4, 1>>
    /\ eventHandler.win = 1

\* C20: dragging mode is entered from default mode only on a pointer event
\* whose left-button bit is set while it was clear in the pointer event
\* observed before, and crop-selecting mode likewise for the right-button
\* bit; a button already held when the pointer comes over a window, or still
\* held when default mode is entered again, starts neither.
C20_ModesEnteredOnNewPress ==
    [][/\ (eventHandler.mode = "default" /\ eventHandler'.mode = "drag")
            => /\ pointerEvent.ButtonMask % 2 = 0
               /\ pointerEvent'.ButtonMask % 2 = 1
       /\ (eventHandler.mode = "default" /\ eventHandler'.mode = "crop")
            => /\ (pointerEvent.ButtonMask \div 4) % 2 = 0
               /\ (pointerEvent'.ButtonMask \div 4) % 2 = 1]_vars

----------------------------------------------------------------------------
(* Properties of the pixel codec on formats of any shape (SpecPixelEdge).  *)

\* C17: NewPixelFormatImage returns an error for every format whose
\* BitsPerPixel is not 8, 16 or 32, and on every format it accepts Set, At,
\* RGBA, CopyFromRGBA and CopyToRGBA complete without a panic.
C17_AcceptedFormatsNeverPanic ==
    /\ (pstage # "idle" /\ pfmt.BitsPerPixel \notin {8, 16, 32}) => pstage = "rejected"
    /\ pstage # "panic"

----------------------------------------------------------------------------
(* Properties of connections served at the same time (SpecConc).           *)

\* C16: connections are independent: the end of one connection, whatever
\* ended it, neither ends nor changes another that is being served, so a
\* connection that is being served while another has ended can still be run.
C16_EndLeavesOthersServed ==
    (pc \in {"Error", "Panic"} /\ other.pc \notin Ended) => ENABLED Switch

----------------------------------------------------------------------------
(* Properties of the keyboard folds (Spec, SpecCrop).                      *)

\* A fold was applied in the step: the only place that sets ui.keyPressing.
FoldApplied == ~keyPressing /\ keyPressing'

\* C21: a fold is applied only on an event at which the key state goes from
\* not pressed to pressed; while the last key event is a press, no pointer
\* move, repeated press, request or return to default mode applies a fold.
C21_FoldOnlyOnKeyPress ==
    [][FoldApplied => (~keyEvent.Pressed /\ keyEvent'.Pressed)]_vars

\* The crop with one edge replaced, by the keysym of the edge.
EdgeFolded(crop, b, keySym, p) ==
    CASE keySym = 119 -> [crop EXCEPT !.Min.Y = IF crop.Min.Y = b.Min.Y THEN p.Y ELSE b.Min.Y]
      [] keySym = 97 -> [crop EXCEPT !.Min.X = IF crop.Min.X = b.Min.X THEN p.X ELSE b.Min.X]
      [] keySym = 115 -> [crop EXCEPT !.Max.Y = IF crop.Max.Y = b.Max.Y THEN p.Y ELSE b.Max.Y]
      [] keySym = 100 -> [crop EXCEPT !.Max.X = IF crop.Max.X = b.Max.X THEN p.X ELSE b.Max.X]
      [] OTHER -> crop

\* C22: in default mode a newly pressed W, A, S or D with the pointer over a
\* window changes the corresponding edge of that window's crop and no other:
\* an edge on the image's natural bound goes to the pointer's coordinate in
\* window space, a trimmed edge goes back to the natural bound; any other
\* key changes no crop; the other windows keep crop, lastCrop and position.
C22_NewKeyFoldsEdge ==
    [][(/\ pc = "Loop" /\ pc' = "Loop"
        /\ eventHandler.mode = "default"
        /\ ~keyEvent.Pressed /\ keyEvent'.Pressed
        /\ Topmost(windows, Pt(pointerEvent.X, pointerEvent.Y)) # 0)
          => LET loc == Pt(pointerEvent.X, pointerEvent.Y)
                 t == Topmost(windows, loc)
                 win == windows[t]
                 after == windows'[IndexOf(windows', win.id)]
             IN  /\ after.crop = EdgeFolded(win.crop, win.img, keyEvent'.KeySym,
                                            ScreenToWindow(win, loc))
                 /\ after.lastCrop = win.lastCrop
                 /\ \A i \in 1..Len(windows) :
                       i # t => \E j \in 1..Len(windows') :
                                   /\ windows'[j].id = windows[i].id
                                   /\ windows'[j].crop = windows[i].crop
                                   /\ windows'[j].lastCrop = windows[i].lastCrop
                                   /\ windows'[j].pos = windows[i].pos]_vars

\* The right button was released less than 10 units from the press: the step
\* ran the click branch of the crop-selecting closure.
ClickReleased ==
    /\ eventHandler.mode = "crop"
    /\ eventHandler'.mode = "default"
    /\ Dist2(Pt(eventHandler.x, eventHandler.y), Pt(pointerEvent'.X, pointerEvent'.Y)) < 100

\* Image points whose place on the screen is compared before and after.
AnchorPoints == { Pt(0, 0), Pt(5, 3), Pt(MaxCoord, 1) }

\* C23: when a keyboard fold or a click-toggle changes a window's crop.Min,
\* the window's position moves by (newMin - oldMin) * scale, truncated, and
\* WindowToScreen of every image point stays within 1 of what it was; when
\* crop.Min stays, the position stays.
C23_FoldKeepsAnchor ==
    [][(FoldApplied \/ ClickReleased)
          => \A i \in 1..Len(windows) :
                LET win == windows[i]
                    after == windows'[IndexOf(windows', win.id)]
                    dx == after.crop.Min.X - win.crop.Min.X
                    dy == after.crop.Min.Y - win.crop.Min.Y
                IN  /\ after.pos = Pt(win.pos.X + TruncDiv(dx * win.scale.n, win.scale.d),
                                      win.pos.Y + TruncDiv(dy * win.scale.n, win.scale.d))
                    /\ (dx = 0 /\ dy = 0) => after.pos = win.pos
                    /\ \A p \in AnchorPoints :
                          Near(WindowToScreen(after, p), WindowToScreen(win, p))]_vars

\* C23 witness: A was pressed with the pointer at (2, 2) on the unfolded
\* window at (0, 0): crop.Min.X went from 0 to 4 and the window moved 2 to
\* the right.
C23_LeftEdgeFolded ==
    /\ keyPressing
    /\ keyEvent = [Pressed |-> TRUE, KeySym |-> KeyA]
    /\ pointerEvent = [ButtonMask |-> 0, X |-> 2, Y |-> 2]
    /\ Len(windows) = 1
    /\ windows[1].crop = Rect(4, 0, 32, 16)
    /\ windows[1].pos = Pt(2, 0)

----------------------------------------------------------------------------
(* Properties of dragging (SpecUI).                                        *)

\* C24: the drag closure starts from the press point; each step in dragging
\* mode with the left button still held moves the bound window by (current
\* pointer - previously observed pointer) and remembers the current pointer,
\* so position - observed pointer is constant over the drag; the step that
\* reports the release moves no window; no step in dragging mode changes a
\* crop, a lastCrop, the order or another window's position.
C24_DragFollowsPointer ==
    [][/\ (eventHandler.mode = "default" /\ eventHandler'.mode = "drag")
            => /\ eventHandler'.x = pointerEvent'.X
               /\ eventHandler'.y = pointerEvent'.Y
       /\ eventHandler.mode = "drag"
            => /\ eventHandler'.mode \in {"drag", "default"}
               /\ eventHandler'.mode = "default" <=> ~LeftDown(pointerEvent'.ButtonMask)
               /\ Len(windows') = Len(windows)
               /\ \A i \in 1..Len(windows) :
                     LET win == windows[i]
                         after == windows'[i]
                     IN  /\ after.id = win.id
                         /\ after.crop = win.crop
                         /\ after.lastCrop = win.lastCrop
                         /\ IF win.id = eventHandler.win /\ eventHandler'.mode = "drag"
                            THEN /\ after.pos.X - pointerEvent'.X = win.pos.X - eventHandler.x
                                 /\ after.pos.Y - pointerEvent'.Y = win.pos.Y - eventHandler.y
                                 /\ eventHandler'.x = pointerEvent'.X
                                 /\ eventHandler'.y = pointerEvent'.Y
                                 /\ eventHandler'.win = win.id
                            ELSE after.pos = win.pos]_vars

\* C24 witness: the top window (id 4, at (0, 0)) was pressed at (2, 2) and the
\* pointer, still held, is at (2, 6): the window is at (0, 4).
C24_WindowDragged ==
    /\ eventHandler = [mode |-> "drag", win |-> 4, x |-> 2, y |-> 6]
    /\ pointerEvent = [ButtonMask |-> 1, X |-> 2, Y |-> 6]
    /\ BoundWindow(ui).pos = Pt(0, 4)

\* C25: a window's moving flag is true exactly when the mode is dragging and
\* the closure is bound to that window; so at most one window is moving, and
\* none in default or crop-selecting mode.
C25_MovingIffDragged ==
    /\ \A i \in 1..Len(windows) :
          windows[i].moving <=>
              (eventHandler.mode = "drag" /\ eventHandler.win = windows[i].id)
    /\ eventHandler.mode = "drag" => \E i \in 1..Len(windows) : windows[i].moving
    /\ \A i, j \in 1..Len(windows) : (windows[i].moving /\ windows[j].moving) => i = j

\* C25 witness: a drag has ended: the left button is reported released, the
\* mode is default, a window is away from where it was created and no
\* window is moving.
C25_DragReleased ==
    /\ pc = "Loop"
    /\ eventHandler.mode = "default"
    /\ ~LeftDown(pointerEvent.ButtonMask)
    /\ \E i \in 1..Len(windows) : windows[i].pos # Pt(0, 0)
    /\ \A i \in 1..Len(windows) : ~windows[i].moving

----------------------------------------------------------------------------
(* Properties of crop selection (SpecUI, SpecCrop).                        *)

\* The rectangle with min <= max on both axes that two points span.
Spanned(a, b) ==
    [Min |-> [X |-> IF a.X <= b.X THEN a.X ELSE b.X, Y |-> IF a.Y <= b.Y THEN a.Y ELSE b.Y],
     Max |-> [X |-> IF a.X <= b.X THEN b.X ELSE a.X, Y |-> IF a.Y <= b.Y THEN b.Y ELSE a.Y]]

\* C26: a step taken in crop-selecting mode with the right button still held
\* sets pendingCrop to the rectangle spanned by the press point and the
\* current pointer, min <= max on both axes, and changes nothing else of
\* the UI: every window's crop, lastCrop and position, the order of the
\* windows, the closure and the key latch stay.
C26_HeldSwipeOnlyPends ==
    [][(pc = "Loop" /\ eventHandler.mode = "crop" /\ RightDown(pointerEvent'.ButtonMask))
          => /\ pendingCrop' = Spanned(Pt(eventHandler.x, eventHandler.y),
                                       Pt(pointerEvent'.X, pointerEvent'.Y))
             /\ pendingCrop'.Min.X <= pendingCrop'.Max.X
             /\ pendingCrop'.Min.Y <= pendingCrop'.Max.Y
             /\ windows' = windows
             /\ eventHandler' = eventHandler
             /\ keyPressing' = keyPressing]_vars

\* C26 witness: the right button was pressed at (6, 2) and is held at (2, 6),
\* left of and below the press: the pending selection is (2, 2)-(6, 6).
C26_SelectionAgainstOrder ==
    /\ eventHandler.mode = "crop"
    /\ eventHandler.x = 6 /\ eventHandler.y = 2
    /\ pointerEvent = [ButtonMask |-> 4, X |-> 2, Y |-> 6]
    /\ pendingCrop = Rectangle(Pt(2, 2), Pt(6, 6))

\* The right button was released 10 units or more from the press: the step
\* ran the swipe branch of the crop-selecting closure.
SwipeReleased ==
    /\ eventHandler.mode = "crop"
    /\ eventHandler'.mode = "default"
    /\ Dist2(Pt(eventHandler.x, eventHandler.y), Pt(pointerEvent'.X, pointerEvent'.Y)) >= 100

\* C27: when a swipe is released 10 units or more from the press, the bound
\* window's crop becomes the canonical rectangle of the press and release
\* points converted to window coordinates, and its lastCrop becomes the crop
\* it had before the release.
C27_SwipeSetsCropAndLastCrop ==
    [][SwipeReleased
          => LET win == BoundWindow(ui)
                 after == windows'[IndexOf(windows', win.id)]
                 loc == Pt(eventHandler.x, eventHandler.y)
                 loc2 == Pt(pointerEvent'.X, pointerEvent'.Y)
             IN  /\ after.crop = Spanned(ScreenToWindow(win, loc), ScreenToWindow(win, loc2))
                 /\ after.lastCrop = win.crop]_vars

\* Screen points around the min corner (100, 100) of the window of scale 2.0.
ZoomedSwipePoints == { Pt(100 + a, 100 + b) : a, b \in -3..3 }

\* C28: after a swipe is released, the bound window's on-screen rectangle has
\* its min corner within 1 per coordinate of the min corner of the rectangle
\* spanned on the screen by the press point and the release point, whatever
\* the window's crop.Min and position were.
\* The same for the swipe branch applied to the window of scale 2.0, where
\* the conversion to window coordinates loses a half; tried once, in the
\* initial state.
C28_SwipeAnchorsAtPress ==
    /\ [][SwipeReleased
             => LET win == BoundWindow(ui)
                    after == windows'[IndexOf(windows', win.id)]
                    loc == Pt(eventHandler.x, eventHandler.y)
                    loc2 == Pt(pointerEvent'.X, pointerEvent'.Y)
                IN  Near(ScreenRect(after).Min, Spanned(loc, loc2).Min)]_vars
    /\ [](pc = "WriteProtocolVersion"
             => \A a, b \in ZoomedSwipePoints :
                   Near(ScreenRect(SelectCrop(ZoomedWindow, a, b)).Min, Spanned(a, b).Min))

\* C28 witness: the window folded to crop.Min (4, 0) at (2, 0) was swiped
\* from (2, 2) to (10, 8): the new crop (4, 4)-(20, 16) is drawn from (2, 2).
C28_FoldedWindowSwiped ==
    /\ eventHandler.mode = "default"
    /\ pointerEvent = [ButtonMask |-> 0, X |-> 10, Y |-> 8]
    /\ Len(windows) = 1
    /\ windows[1].crop = Rect(4, 4, 20, 16)
    /\ windows[1].lastCrop = Rect(0, 0, 32, 16)
    /\ ScreenRect(windows[1]).Min = Pt(2, 2)

\* C29: pendingCrop is the empty rectangle whenever the mode is default or
\* dragging; the step that leaves crop-selecting mode, by a click or by a
\* swipe, empties it.
C29_NoSelectionOutsideCropMode ==
    eventHandler.mode \in {"default", "drag"} => pendingCrop = ZR

\* C29 witness: a swipe from (2, 2) to (10, 8) has been released and the left
\* button then pressed on the window: the crop is the swiped one, the mode is
\* dragging and nothing is pending.
C29_DraggedAfterSwipe ==
    /\ eventHandler.mode = "drag"
    /\ Len(windows) = 1
    /\ windows[1].crop = Rect(4, 4, 20, 16)
    /\ windows[1].moving
    /\ pendingCrop = ZR

----------------------------------------------------------------------------
(* Properties of the messages without effect (Spec).                       *)

\* The length on the wire of a SetEncodings message of n encodings (type,
\* padding, count, then 4 bytes each) and of a ClientCutText message of n
\* characters (type, 3 bytes of padding, length, then the text).
SetEncodingsWire(n) == [tag |-> 2, headerComplete |-> TRUE, complete |-> TRUE, count |-> n]
ClientCutTextWire(n) == [tag |-> 6, headerComplete |-> TRUE, complete |-> TRUE, length |-> n]
WireLength(m) == IF m.tag = 2 THEN 4 + 4 * m.count ELSE 8 + m.length

\* C30: a step that reads a SetEncodings or a ClientCutText message without
\* error leaves the session in the loop with the same pixel format, key and
\* pointer events, windows (order, crops, positions), pending selection, key
\* latch and mode, and writes nothing; and for every count and every text
\* length the decoders accept, they take exactly the bytes of the message
\* from the stream, so the next message is read from its first byte.
C30_IgnoredMessagesChangeNothing ==
    /\ [][(pc = "Loop" /\ pc' = "Loop" /\ lastMsg'.tag \in {2, 6})
             => /\ UNCHANGED <<pixelFormat, setFormat, keyEvent, pointerEvent>>
                /\ UNCHANGED <<windows, pendingCrop, keyPressing, eventHandler>>
                /\ out' = <<>>]_vars
    /\ [](pc = "WriteProtocolVersion"
             => /\ \A n \in 0..maxEncodings :
                      /\ SetEncodingsRead(SetEncodingsWire(n)).err = ""
                      /\ SetEncodingsRead(SetEncodingsWire(n)).read
                            = WireLength(SetEncodingsWire(n))
                /\ \A n \in 0..maxTextLength :
                      /\ ClientCutTextRead(ClientCutTextWire(n)).err = ""
                      /\ ClientCutTextRead(ClientCutTextWire(n)).read
                            = WireLength(ClientCutTextWire(n)))

\* C30 witness: a SetEncodings message was read while a window was being
\* dragged under a pixel format the client had set, and the session goes on.
C30_SetEncodingsDuringDrag ==
    /\ pc = "Loop"
    /\ lastMsg.tag = 2
    /\ setFormat # NoFormat
    /\ eventHandler.mode = "drag"
    /\ pointerEvent.ButtonMask = 1

----------------------------------------------------------------------------
(* The client-to-server messages on the wire. A message on the wire is a   *)
(* sequence of bytes; a Write result is [panic, err, bytes] and a Read      *)
(* result is [panic, err, msg, read], read being the number of bytes taken  *)
(* from the stream. Position i of a Go buffer is element i + 1 here.        *)

Zeros(n) == [i \in 1..n |-> 0]

\* b[from:] of a Go slice.
SliceFrom(b, from) == SubSeq(b, from + 1, Len(b))

\* bo.PutUint16 / bo.Uint16 / bo.PutUint32 / bo.Uint32 on integers.
PutU16(bo, v) ==
    IF bo = "BigEndian" THEN <<v \div 256, v % 256>> ELSE <<v % 256, v \div 256>>

U16(bo, b) ==
    IF bo = "BigEndian" THEN b[1] * 256 + b[2] ELSE b[2] * 256 + b[1]

PutU32(bo, v) ==
    LET be == <<v \div 16777216, (v \div 65536) % 256, (v \div 256) % 256, v % 256>>
    IN  IF bo = "BigEndian" THEN be ELSE <<be[4], be[3], be[2], be[1]>>

U32(bo, b) ==
    IF bo = "BigEndian" THEN b[1] * 16777216 + b[2] * 65536 + b[3] * 256 + b[4]
    ELSE b[4] * 16777216 + b[3] * 65536 + b[2] * 256 + b[1]

\* buf with the bytes w stored from position at on.
Stored(buf, at, w) ==
    [i \in 1..Len(buf) |-> IF i > at /\ i <= at + Len(w) THEN w[i - at] ELSE buf[i]]

\* The 13 bytes PixelFormat.Write stores, buf[0] to buf[12].
PixelFormatFields(pf, bo) ==
    <<pf.BitsPerPixel, pf.BitDepth, IF pf.BigEndian THEN 1 ELSE 0,
      IF pf.TrueColor THEN 1 ELSE 0>>
    \o PutU16(bo, pf.RedMax) \o PutU16(bo, pf.GreenMax) \o PutU16(bo, pf.BlueMax)
    \o <<pf.RedShift, pf.GreenShift, pf.BlueShift>>

\* PixelFormat.Write into the slice buf: the store to buf[12] is out of range
\* when the slice is shorter than 13 bytes.
PixelFormatWriteBuf(buf, pf, bo) ==
    LET w == PixelFormatFields(pf, bo)
    IN  IF Len(buf) < Len(w) THEN [panic |-> TRUE, buf |-> buf]
        ELSE [panic |-> FALSE, buf |-> Stored(buf, 0, w)]

\* PixelFormat.Read from the slice buf.
PixelFormatReadBuf(buf, bo) ==
    [BitsPerPixel |-> buf[1], BitDepth |-> buf[2],
     BigEndian |-> buf[3] # 0, TrueColor |-> buf[4] # 0,
     RedMax |-> U16(bo, SliceFrom(buf, 4)), GreenMax |-> U16(bo, SliceFrom(buf, 6)),
     BlueMax |-> U16(bo, SliceFrom(buf, 8)),
     RedShift |-> buf[11], GreenShift |-> buf[12], BlueShift |-> buf[13]]

Panicked == [panic |-> TRUE, err |-> "", bytes |-> <<>>]
Refused(e) == [panic |-> FALSE, err |-> e, bytes |-> <<>>]
Written(b) == [panic |-> FALSE, err |-> "", bytes |-> b]
Short(r) == [panic |-> FALSE, err |-> "EOF", read |-> Len(r)]
Mistyped(n) == [panic |-> FALSE, err |-> "type", read |-> n]
Decoded(m, n) == [panic |-> FALSE, err |-> "", msg |-> m, read |-> n]

\* SetPixelFormatMessage.Write: var buf [16]byte; m.PixelFormat.Write(buf[4:], bo)
SetPixelFormatMessageWrite(m, bo) ==
    LET buf == Zeros(16)
        w == PixelFormatWriteBuf(SliceFrom(buf, 4), m.PixelFormat, bo)
    IN  IF w.panic THEN Panicked ELSE Written(Stored(buf, 4, w.buf))

\* SetPixelFormatMessage.Read: var buf [20]byte
SetPixelFormatMessageRead(r, bo) ==
    IF Len(r) < 20 THEN Short(r)
    ELSE IF r[1] # 0 THEN Mistyped(20)
    ELSE Decoded([kind |-> "SetPixelFormat",
                  PixelFormat |-> PixelFormatReadBuf(SliceFrom(SubSeq(r, 1, 20), 4), bo)], 20)

RECURSIVE PutEncodings(_, _)
PutEncodings(types, bo) ==
    IF types = <<>> THEN <<>> ELSE PutU32(bo, Head(types)) \o PutEncodings(Tail(types), bo)

\* SetEncodingsMessage.Write: maxCount := len(buf[4:]) / 4 with buf [255]byte
SetEncodingsMessageWrite(m, bo) ==
    IF Len(m.EncodingTypes) > (255 - 4) \div 4 THEN Refused("too many encoding types")
    ELSE Written(<<2, 0>> \o PutU16(bo, Len(m.EncodingTypes))
                 \o PutEncodings(m.EncodingTypes, bo))

\* SetEncodingsMessage.Read
SetEncodingsMessageRead(r, bo) ==
    IF Len(r) < 4 THEN Short(r)
    ELSE IF r[1] # 2 THEN Mistyped(4)
    ELSE LET encodingCount == U16(bo, SliceFrom(r, 2))
             n == (encodingCount * 4) % (MaxUint16 + 1)
         IN  IF encodingCount > maxEncodings
             THEN [panic |-> FALSE, err |-> "too many encodings", read |-> 4]
             ELSE IF Len(r) < 4 + n THEN Short(r)
             ELSE Decoded([kind |-> "SetEncodings",
                           EncodingTypes |->
                               [i \in 1..encodingCount |->
                                   U32(bo, SubSeq(r, 4 * i + 1, 4 * i + 4))]], 4 + n)

FramebufferUpdateRequestMessageWrite(m, bo) ==
    Written(<<3, IF m.Incremental THEN 1 ELSE 0>> \o PutU16(bo, m.X) \o PutU16(bo, m.Y)
            \o PutU16(bo, m.Width) \o PutU16(bo, m.Height))

FramebufferUpdateRequestMessageRead(r, bo) ==
    IF Len(r) < 10 THEN Short(r)
    ELSE IF r[1] # 3 THEN Mistyped(10)
    ELSE Decoded([kind |-> "FramebufferUpdateRequest", Incremental |-> r[2] # 0,
                  X |-> U16(bo, SliceFrom(r, 2)), Y |-> U16(bo, SliceFrom(r, 4)),
                  Width |-> U16(bo, SliceFrom(r, 6)), Height |-> U16(bo, SliceFrom(r, 8))], 10)

KeyEventMessageWrite(m, bo) ==
    Written(<<4, IF m.Pressed THEN 1 ELSE 0, 0, 0>> \o PutU32(bo, m.KeySym))

KeyEventMessageRead(r, bo) ==
    IF Len(r) < 8 THEN Short(r)
    ELSE IF r[1] # 4 THEN Mistyped(8)
    ELSE Decoded([kind |-> "KeyEvent", Pressed |-> r[2] # 0,
                  KeySym |-> U32(bo, SubSeq(r, 5, 8))], 8)

PointerEventMessageWrite(m, bo) ==
    Written(<<5, m.ButtonMask>> \o PutU16(bo, m.X) \o PutU16(bo, m.Y))

PointerEventMessageRead(r, bo) ==
    IF Len(r) < 6 THEN Short(r)
    ELSE IF r[1] # 5 THEN Mistyped(6)
    ELSE Decoded([kind |-> "PointerEvent", ButtonMask |-> r[2],
                  X |-> U16(bo, SliceFrom(r, 2)), Y |-> U16(bo, SliceFrom(r, 4))], 6)

\* ClientCutTextMessage.Write. Text is the string as its sequence of code
\* points; the ISO 8859-1 encoder turns a code point up to 255 into the byte
\* of that value and fails on any other.
ClientCutTextMessageWrite(m, bo) ==
    IF \E i \in 1..Len(m.Text) : m.Text[i] > MaxUint8 THEN Refused("encode text")
    ELSE Written(<<6, 0, 0, 0>> \o PutU32(bo, Len(m.Text)) \o m.Text)

\* ClientCutTextMessage.Read: the decoder turns each byte into the code point
\* of its value.
ClientCutTextMessageRead(r, bo) ==
    IF Len(r) < 8 THEN Short(r)
    ELSE IF r[1] # 6 THEN Mistyped(8)
    ELSE LET textLength == U32(bo, SubSeq(r, 5, 8))
         IN  IF textLength > maxTextLength
             THEN [panic |-> FALSE, err |-> "text length too long", read |-> 8]
             ELSE IF Len(r) < 8 + textLength THEN Short(r)
             ELSE Decoded([kind |-> "ClientCutText",
                           Text |-> SubSeq(r, 9, 8 + textLength)], 8 + textLength)

MessageWrite(m, bo) ==
    CASE m.kind = "SetPixelFormat" -> SetPixelFormatMessageWrite(m, bo)
      [] m.kind = "SetEncodings" -> SetEncodingsMessageWrite(m, bo)
      [] m.kind = "FramebufferUpdateRequest" -> FramebufferUpdateRequestMessageWrite(m, bo)
      [] m.kind = "KeyEvent" -> KeyEventMessageWrite(m, bo)
      [] m.kind = "PointerEvent" -> PointerEventMessageWrite(m, bo)
      [] m.kind = "ClientCutText" -> ClientCutTextMessageWrite(m, bo)

MessageRead(kind, r, bo) ==
    CASE kind = "SetPixelFormat" -> SetPixelFormatMessageRead(r, bo)
      [] kind = "SetEncodings" -> SetEncodingsMessageRead(r, bo)
      [] kind = "FramebufferUpdateRequest" -> FramebufferUpdateRequestMessageRead(r, bo)
      [] kind = "KeyEvent" -> KeyEventMessageRead(r, bo)
      [] kind = "PointerEvent" -> PointerEventMessageRead(r, bo)
      [] kind = "ClientCutText" -> ClientCutTextMessageRead(r, bo)

----------------------------------------------------------------------------
(* The codec specification: a message value is written with Write and the  *)
(* bytes are given to the Read of the same message type. pin holds the      *)
(* message and the byte order, pix the bytes written, pout the result of    *)
(* Read.                                                                    *)

CodecByteOrders == {"BigEndian", "LittleEndian"}

CodecMessages ==
    { [kind |-> "SetPixelFormat", PixelFormat |-> pf] :
         pf \in {InitialPixelFormat, PixelFormatRead(Format565), PixelFormatRead(FormatPalette)} }
    \cup { [kind |-> "SetEncodings", EncodingTypes |-> t] :
              t \in { <<>>, <<0>>, <<5, 1, 16777216>>,
                      [i \in 1..(maxEncodings - 1) |-> i], [i \in 1..maxEncodings |-> i] } }
    \cup { [kind |-> "FramebufferUpdateRequest", Incremental |-> inc,
            X |-> r[1], Y |-> r[2], Width |-> r[3], Height |-> r[4]] :
              inc \in BOOLEAN, r \in { <<0, 0, 3, 2>>, <<MaxUint16, 1, windowWidth, windowHeight>> } }
    \cup { [kind |-> "KeyEvent", Pressed |-> down, KeySym |-> k] :
              down \in BOOLEAN, k \in {0, KeyA, 65307, 2147483647} }
    \cup { [kind |-> "PointerEvent", ButtonMask |-> mask, X |-> p[1], Y |-> p[2]] :
              mask \in {0, 1, 4, MaxUint8}, p \in { <<0, 0>>, <<2, 2>>, <<MaxUint16, 719>> } }
    \cup { [kind |-> "ClientCutText", Text |-> t] :
              t \in { <<>>, <<104, 105>>, <<233>>, <<8364>>,
                      [i \in 1..maxTextLength |-> 65], [i \in 1..(maxTextLength + 1) |-> 65] } }

InitCodec ==
    /\ pc = "WriteProtocolVersion"
    /\ err = ""
    /\ io = <<>>
    /\ pixelFormat = InitialPixelFormat
    /\ authResponse = ZeroBytes16
    /\ keyEvent = [Pressed |-> FALSE, KeySym |-> 0]
    /\ pointerEvent = [ButtonMask |-> 0, X |-> 0, Y |-> 0]
    /\ lastMsg = NoMsg
    /\ setFormat = NoFormat
    /\ out = <<>>
    /\ windows = <<>>
    /\ pendingCrop = ZR
    /\ keyPressing = FALSE
    /\ eventHandler = DefaultHandler
    /\ pfmt = InitialPixelFormat
    /\ pin \in { [kind |-> "message", m |-> m, bo |-> bo] :
                    m \in CodecMessages, bo \in CodecByteOrders }
    /\ pix = <<>>
    /\ pout = <<>>
    /\ pstage = "message"
    /\ other = NoConnection

\* err := m.Write(w, bo) into a buffer
CodecWrite ==
    /\ pstage = "message"
    /\ LET w == MessageWrite(pin.m, pin.bo)
       IN  /\ pix' = w.bytes
           /\ pstage' = IF w.panic THEN "panic" ELSE IF w.err # "" THEN "refused" ELSE "written"
    /\ UNCHANGED <<sessionVars, uiVars, other, pin, pfmt, pout>>

\* err := m2.Read(r, bo) from the bytes written
CodecRead ==
    /\ pstage = "written"
    /\ pout' = MessageRead(pin.m.kind, pix, pin.bo)
    /\ pstage' = "read"
    /\ UNCHANGED <<sessionVars, uiVars, other, pin, pfmt, pix>>

NextCodec ==
    \/ CodecWrite
    \/ CodecRead

SpecCodec == InitCodec /\ [][NextCodec]_vars

----------------------------------------------------------------------------
(* Properties of the message codec (SpecCodec).                            *)

\* The sizes of the layout table.
LayoutSize(m) ==
    CASE m.kind = "SetPixelFormat" -> 20
      [] m.kind = "SetEncodings" -> 4 + 4 * Len(m.EncodingTypes)
      [] m.kind = "FramebufferUpdateRequest" -> 10
      [] m.kind = "KeyEvent" -> 8
      [] m.kind = "PointerEvent" -> 6
      [] m.kind = "ClientCutText" -> 8 + Len(m.Text)

\* C31: for every client message, Write does not panic; when it accepts the
\* message it emits as many bytes as the layout table says, and the Read of
\* the same type takes exactly those bytes without error and decodes a
\* message equal to the one written.
C31_WriteThenReadIsIdentity ==
    pin.kind = "message"
       => /\ pstage # "panic"
          /\ pstage \in {"written", "read"} => Len(pix) = LayoutSize(pin.m)
          /\ pstage = "read" => /\ pout.err = ""
                                /\ pout.read = Len(pix)
                                /\ pout.msg = pin.m

----------------------------------------------------------------------------
(* Properties of serving an update request (Spec).                         *)

\* C32: a step that serves a FramebufferUpdateRequest leaves the windows
\* (order, crop, lastCrop, position and moving flag of each), the pending
\* selection, the key latch and the mode as they were, whatever the last
\* observed key and pointer events are.
C32_RequestOnlyRenders ==
    [][(pc = "Loop" /\ lastMsg'.tag = 3)
          => UNCHANGED <<windows, pendingCrop, keyPressing, eventHandler>>]_vars

----------------------------------------------------------------------------
(* Properties of the crop's size (SpecCrop).                               *)

\* C33: in every reachable state every window's crop has positive width and
\* positive height, so that its ScreenRect contains its own min corner
\* and the pointer can hit the window there.
C33_CropNeverEmpty ==
    \A i \in 1..Len(windows) :
        /\ Dx(windows[i].crop) > 0
        /\ Dy(windows[i].crop) > 0
        /\ In(ScreenRect(windows[i]).Min, ScreenRect(windows[i]))

----------------------------------------------------------------------------
(* Properties of repeated quantisation (SpecPixel).                        *)

\* C34: packing a colour that was obtained by unpacking wire pixels gives the
\* same wire pixels: CopyFromRGBA of what CopyToRGBA produced from Pix gives
\* Pix again, and Set of the colour At returned leaves Pix unchanged. The
\* pixels are those that CopyFromRGBA and Set left in Pix, which have no bit
\* outside the three fields.
C34_QuantisationIdempotent ==
    /\ pstage = "copiedBack"
          => CopyFromRGBA(img, [Rect |-> PixelBounds, Pix |-> pout]).img.Pix = pix
    /\ (pstage = "read" /\ ~pout.panic)
          => Set(img, pin.x, 0, pout).Pix = pix

====
